---- MODULE Spec2Model ----
(***************************************************************************)
(* ShellForge: the enclosure generation pipeline.                         *)
(*                                                                         *)
(* Entry points modelled:                                                  *)
(*   "manual"    backend/engine/bbox_only.py  generate_from_manual_bbox    *)
(*   "enclosure" backend/engine/generator.py  generate_enclosure           *)
(*   "wrapper"   backend/engine/wrapper.py    generate_wrapper_enclosure   *)
(*   "api"       backend/api/routes.py        generate_enclosure (POST     *)
(*               /generate), which calls generate_from_manual_bbox         *)
(*                                                                         *)
(* Lengths are integers in micrometres (2.5 mm = 2500), so that the        *)
(* halvings and the factors 0.4, 0.6, 1.25, 1.8, 2.5 of the source are     *)
(* exact on the inputs drawn (multiples of 0.1 mm).  The solid kernel      *)
(* (CadQuery) is the environment: every call to it is logged in klog and   *)
(* may fail; a solid is represented by the list of features successfully   *)
(* applied to it.                                                          *)
(***************************************************************************)
EXTENDS Integers, Sequences, FiniteSets, TLC

VARIABLES
    pc,       \* position of the running entry point
    mode,     \* which entry point runs
    req,      \* the request of POST /generate (api mode)
    specs,    \* the component dicts handed to the engine
    cfg,      \* the EnclosureConfig handed to the engine
    comps,    \* Component objects with bbox_min / bbox_max filled in
    plan,     \* the locals of the generator: style, wall, inner_*, outer_* ...
    base,     \* the base solid: features applied so far
    lid,      \* the lid solid: features applied so far
    extras,   \* the tray and bracket solids: features applied so far
    todo,     \* work list of the loop in progress (standoffs, cutouts)
    klog,     \* every kernel operation issued, in order
    diag,     \* warnings printed for skipped steps
    result,   \* the dict returned: part key -> written
    err,      \* the exception that ended the run, "" when none
    files,    \* names of the files present in the output directory
    resp,     \* the HTTP response of POST /generate (api mode)
    kernel,   \* the stages at which the kernel may refuse a call in this run
    prev      \* what an earlier, identical call returned; NoOutcome when none

vars == <<pc, mode, req, specs, cfg, comps, plan, base, lid, extras, todo, klog,
          diag, result, err, files, resp, kernel, prev>>

(***************************************************************************)
(* Bounds of the model.                                                    *)
(***************************************************************************)
MaxComponents == 2
MaxCutouts == 2

(***************************************************************************)
(* Arithmetic helpers.                                                     *)
(***************************************************************************)
Min2(a, b) == IF a <= b THEN a ELSE b
Max2(a, b) == IF a >= b THEN a ELSE b
SetMin(S) == CHOOSE m \in S : \A n \in S : m <= n
SetMax(S) == CHOOSE m \in S : \A n \in S : m >= n
Half(a) == a \div 2
Range(s) == {s[i] : i \in 1..Len(s)}
SeqsUpTo(S, n) == UNION {[1..k -> S] : k \in 0..n}

(***************************************************************************)
(* Data model (backend/engine/models.py).                                  *)
(***************************************************************************)
ConnectorTypes == {"usb_a", "usb_c", "micro_usb", "mini_usb", "hdmi",
                   "mini_hdmi", "jack_3_5", "barrel_jack", "rj45", "custom"}
WallFaces == {"front", "back", "left", "right", "top", "bottom"}
LidStyles == {"snap", "screws", "none"}
CustomCutoutShapes == {"rectangle", "circle", "hexagon", "triangle"}
PartNames == {"base", "lid", "tray", "bracket"}

\* PartConfig(): the dataclass defaults.
DefaultPart ==
    [style |-> "classic", fillet_radius |-> 1500, wall_thickness |-> 2500,
     lid_hole_style |-> "countersunk", tray_z |-> 0, tray_thickness |-> 2000,
     bracket_hole_diameter |-> 4000, enabled |-> TRUE,
     edge_style |-> "fillet", chamfer_size |-> 1500]

\* FootprintConfig(): the dataclass defaults.
DefaultFootprint ==
    [shape |-> "rectangle", notch_w |-> 0, notch_d |-> 0,
     notch_corner |-> "top_right", tab_w |-> 0, tab_d |-> 0, tab_side |-> "top",
     u_notch_w |-> 0, u_notch_d |-> 0, u_open_side |-> "top",
     arm_fraction |-> 40, polygon_sides |-> 6]      \* arm_fraction in percent

\* EnclosureConfig.parts: the default_factory.
DefaultParts ==
    [base |-> DefaultPart, lid |-> DefaultPart,
     tray |-> [DefaultPart EXCEPT !.enabled = FALSE],
     bracket |-> [DefaultPart EXCEPT !.enabled = FALSE]]

\* EnclosureConfig(): the dataclass defaults.
DefaultConfig ==
    [padding_x |-> 3000, padding_y |-> 3000, padding_z |-> 3000,
     wall_thickness |-> 2500, floor_thickness |-> 2500, lid_thickness |-> 2500,
     lid_style |-> "screws", screw_diameter |-> 3000, boss_diameter |-> 7000,
     boss_height |-> 5000, screw_length |-> 12000,
     lid_hole_style |-> "countersunk", snap_depth |-> 1500, snap_width |-> 8000,
     fillet_radius |-> 1500, enclosure_style |-> "classic",
     pcb_standoffs_enabled |-> TRUE, footprint |-> DefaultFootprint,
     parts |-> DefaultParts, cutouts |-> <<>>, custom_cutouts |-> <<>>]

\* A component dict as generate_from_manual_bbox and
\* generate_wrapper_enclosure read it.  hasGz: the key "ground_z" is present.
\* qx, qy, qz: rot_x, rot_y, rot_z as a number of quarter turns (0 or 1).
CompSpec(w, d, h, x, y, z) ==
    [width |-> w, depth |-> d, height |-> h, x |-> x, y |-> y, z |-> z,
     hasGz |-> FALSE, ground_z |-> 0, qx |-> 0, qy |-> 0, qz |-> 0,
     is_pcb |-> FALSE, pcb_screw_diameter |-> 3000, standoff_positions |-> <<>>]

\* ConnectorCutout; custom_width / custom_height None is 0.
Connector(type, face, ox, oy) ==
    [connector_type |-> type, face |-> face, offset_x |-> ox, offset_y |-> oy,
     custom_width |-> 0, custom_height |-> 0]

\* CustomCutout.
Custom(shape, face, w, h, depth) ==
    [shape |-> shape, face |-> face, width |-> w, height |-> h, depth |-> depth,
     offset_x |-> 0, offset_y |-> 0, rotation |-> 0]

\* The static connector catalog (backend/connectors/profiles.py).  is_round
\* profiles carry a diameter.
CONNECTOR_PROFILES ==
    [usb_a |-> [width |-> 13000, height |-> 6500, is_round |-> FALSE, diameter |-> 0],
     usb_c |-> [width |-> 9300, height |-> 3800, is_round |-> FALSE, diameter |-> 0],
     micro_usb |-> [width |-> 8000, height |-> 3500, is_round |-> FALSE, diameter |-> 0],
     mini_usb |-> [width |-> 8500, height |-> 4500, is_round |-> FALSE, diameter |-> 0],
     hdmi |-> [width |-> 16000, height |-> 7500, is_round |-> FALSE, diameter |-> 0],
     mini_hdmi |-> [width |-> 11500, height |-> 5500, is_round |-> FALSE, diameter |-> 0],
     jack_3_5 |-> [width |-> 6500, height |-> 6500, is_round |-> TRUE, diameter |-> 6500],
     barrel_jack |-> [width |-> 8500, height |-> 8500, is_round |-> TRUE, diameter |-> 8500],
     rj45 |-> [width |-> 16500, height |-> 13500, is_round |-> FALSE, diameter |-> 0]]

\* A variant that answers a catalog miss with a default 10 x 10 rectangle.
get_profile_lenient(connector_type) ==
    IF connector_type \in DOMAIN CONNECTOR_PROFILES
    THEN [found |-> TRUE, profile |-> CONNECTOR_PROFILES[connector_type]]
    ELSE [found |-> TRUE,
          profile |-> [width |-> 10000, height |-> 10000, is_round |-> FALSE, diameter |-> 0]]

\* get_profile: the catalog entry, or a ValueError (found = FALSE) for a type
\* that is not a key of the catalog ("custom" is not).
get_profile(connector_type) ==
    IF connector_type \in DOMAIN CONNECTOR_PROFILES
    THEN [found |-> TRUE, profile |-> CONNECTOR_PROFILES[connector_type]]
    ELSE [found |-> FALSE,
          profile |-> [width |-> 0, height |-> 0, is_round |-> FALSE, diameter |-> 0]]

(***************************************************************************)
(* Bounding-box aggregation.                                               *)
(***************************************************************************)
Vec(x, y, z) == [x |-> x, y |-> y, z |-> z]

\* _rotated_bbox for rotations of 0 or one quarter turn about each axis,
\* applied in the order X, Y, Z of the source: a quarter turn about X
\* exchanges depth and height, about Y width and depth, about Z width and
\* height (Three.js axes: X = width, Y = height, Z = depth).
_rotated_bbox(width, depth, height, qx, qy, qz) ==
    IF qx = 0 /\ qy = 0 /\ qz = 0
    THEN <<width, depth, height>>
    ELSE LET a == IF qx = 1 THEN <<width, height, depth>> ELSE <<width, depth, height>>
             b == IF qy = 1 THEN <<a[2], a[1], a[3]>> ELSE a
             c == IF qz = 1 THEN <<b[3], b[2], b[1]>> ELSE b
         IN  c

\* generate_from_manual_bbox, the conversion loop: one dict to a Component
\* with its box; gz is spec.get("ground_z", spec.get("z", 0)).
ManualComponent(spec) ==
    LET gz  == IF spec.hasGz THEN spec.ground_z ELSE spec.z
        eff == _rotated_bbox(spec.width, spec.depth, spec.height,
                             spec.qx, spec.qy, spec.qz)
        hw  == Half(eff[1])
        hd  == Half(eff[2])
    IN  [position |-> Vec(spec.x, spec.y, gz),
         bbox_min |-> Vec(spec.x - hw, spec.y - hd, gz),
         bbox_max |-> Vec(spec.x + hw, spec.y + hd, gz + eff[3]),
         is_pcb |-> spec.is_pcb,
         pcb_screw_diameter |-> spec.pcb_screw_diameter,
         ground_z |-> gz,
         standoff_positions |-> spec.standoff_positions]

\* load_component_bbox: the model file's bounding box moved by the
\* component's position.  The file of a component is taken to hold a solid
\* of width x depth x height centred on the Z axis and resting on z = 0.
load_component_bbox(spec) ==
    [position |-> Vec(spec.x, spec.y, spec.z),
     bbox_min |-> Vec(spec.x - Half(spec.width), spec.y - Half(spec.depth), spec.z),
     bbox_max |-> Vec(spec.x + Half(spec.width), spec.y + Half(spec.depth),
                      spec.z + spec.height),
     is_pcb |-> spec.is_pcb,
     pcb_screw_diameter |-> spec.pcb_screw_diameter,
     ground_z |-> spec.ground_z,
     standoff_positions |-> spec.standoff_positions]

\* A variant that takes the box of the first component for the whole list.
compute_combined_bbox_first(components) ==
    IF components = <<>>
    THEN [ok |-> FALSE, bbox_min |-> Vec(0, 0, 0), bbox_max |-> Vec(0, 0, 0)]
    ELSE [ok |-> TRUE, bbox_min |-> components[1].bbox_min,
          bbox_max |-> components[1].bbox_max]

\* A variant without the empty check: the box of nothing is the origin.
compute_combined_bbox_unchecked(components) ==
    [ok |-> TRUE,
     bbox_min |-> IF components = <<>> THEN Vec(0, 0, 0) ELSE components[1].bbox_min,
     bbox_max |-> IF components = <<>> THEN Vec(0, 0, 0) ELSE components[1].bbox_max]

\* compute_combined_bbox: raises ValueError("No components provided") on an
\* empty list (ok = FALSE), else the component-wise min / max.
compute_combined_bbox(components) ==
    IF components = <<>>
    THEN [ok |-> FALSE, bbox_min |-> Vec(0, 0, 0), bbox_max |-> Vec(0, 0, 0)]
    ELSE LET C == Range(components)
         IN  [ok |-> TRUE,
              bbox_min |-> Vec(SetMin({c.bbox_min.x : c \in C}),
                               SetMin({c.bbox_min.y : c \in C}),
                               SetMin({c.bbox_min.z : c \in C})),
              bbox_max |-> Vec(SetMax({c.bbox_max.x : c \in C}),
                               SetMax({c.bbox_max.y : c \in C}),
                               SetMax({c.bbox_max.z : c \in C}))]

(***************************************************************************)
(* Per-part configuration and style resolution.                            *)
(***************************************************************************)
\* _get_part: config.parts.get(part_name, PartConfig()).
_get_part(config, part_name) ==
    IF part_name \in DOMAIN config.parts THEN config.parts[part_name] ELSE DefaultPart

\* style = base_part.style if base_part.style else config.enclosure_style
EffectiveStyle(config) ==
    LET base_part == _get_part(config, "base")
    IN  IF base_part.style # "" THEN base_part.style ELSE config.enclosure_style

\* wall: 1.8 mm for minimal, else the base part's wall_thickness if truthy,
\* else the global one.
EffectiveWall(config) ==
    LET base_part == _get_part(config, "base")
    IN  IF EffectiveStyle(config) = "minimal" THEN 1800
        ELSE IF base_part.wall_thickness # 0 THEN base_part.wall_thickness
        ELSE config.wall_thickness

\* eff_fillet: 0 for minimal, 3 mm for rounded, else the base part's radius.
EffectiveFillet(config) ==
    LET base_part == _get_part(config, "base")
    IN  IF EffectiveStyle(config) = "minimal" THEN 0
        ELSE IF EffectiveStyle(config) = "rounded" THEN 3000
        ELSE base_part.fillet_radius

\* A variant that pads one side only.
InnerSize_one_side(bbox_min, bbox_max, config) ==
    Vec((bbox_max.x - bbox_min.x) + config.padding_x,
        (bbox_max.y - bbox_min.y) + config.padding_y,
        (bbox_max.z - bbox_min.z) + config.padding_z)

\* inner_w, inner_d, inner_h: the combined extent plus twice the padding.
InnerSize(bbox_min, bbox_max, config) ==
    Vec((bbox_max.x - bbox_min.x) + config.padding_x * 2,
        (bbox_max.y - bbox_min.y) + config.padding_y * 2,
        (bbox_max.z - bbox_min.z) + config.padding_z * 2)

\* A variant that adds the wall on one side only.
OuterSize_one_wall(inner, wall, floor) ==
    Vec(inner.x + wall, inner.y + wall, inner.z + floor)

\* outer_w, outer_d, outer_h.
OuterSize(inner, wall, floor) ==
    Vec(inner.x + wall * 2, inner.y + wall * 2, inner.z + floor)

\* boss_h = max(config.screw_length - lid_t, 3.0)
BossHeight(config) == Max2(config.screw_length - config.lid_thickness, 3000)

NoPlan ==
    [style |-> "", wall |-> 0, eff_fillet |-> 0,
     bbox_min |-> Vec(0, 0, 0), bbox_max |-> Vec(0, 0, 0),
     cavity_center_x |-> 0, cavity_center_y |-> 0,
     inner |-> Vec(0, 0, 0), outer |-> Vec(0, 0, 0),
     floor |-> 0, lid_t |-> 0, inner_center |-> Vec(0, 0, 0), boss_h |-> 0,
     bounds |-> <<0, 0, 0, 0>>]

(***************************************************************************)
(* Footprint builder (generator.py _build_footprint).  A footprint is the  *)
(* 2D sketch handed to the kernel: a centred rectangle, a closed polyline  *)
(* or a regular polygon.                                                   *)
(***************************************************************************)
Rect(w, d) == [kind |-> "rect", w |-> w, d |-> d]
Polyline(pts) == [kind |-> "polyline", pts |-> pts]

\* A variant that sizes every automatic notch and tab as 0.4 of the outline.
_build_footprint_uniform(outer_w, outer_d, fp) ==
    LET hw == Half(outer_w)
        hd == Half(outer_d)
    IN
    CASE fp.shape = "rectangle" -> Rect(outer_w, outer_d)
      [] fp.shape = "l_shape" ->
            LET nw == IF fp.notch_w # 0 THEN fp.notch_w ELSE (outer_w * 4) \div 10
                nd == IF fp.notch_d # 0 THEN fp.notch_d ELSE (outer_d * 4) \div 10
            IN  Polyline(
                CASE fp.notch_corner = "top_right" ->
                        << <<-hw, -hd>>, <<hw, -hd>>, <<hw, hd - nd>>,
                           <<hw - nw, hd - nd>>, <<hw - nw, hd>>, <<-hw, hd>> >>
                  [] fp.notch_corner = "top_left" ->
                        << <<-hw, -hd>>, <<hw, -hd>>, <<hw, hd>>,
                           <<-hw + nw, hd>>, <<-hw + nw, hd - nd>>, <<-hw, hd - nd>> >>
                  [] fp.notch_corner = "bottom_right" ->
                        << <<-hw, -hd>>, <<hw - nw, -hd>>, <<hw - nw, -hd + nd>>,
                           <<hw, -hd + nd>>, <<hw, hd>>, <<-hw, hd>> >>
                  [] OTHER ->
                        << <<-hw + nw, -hd>>, <<-hw + nw, -hd + nd>>, <<-hw, -hd + nd>>,
                           <<-hw, hd>>, <<hw, hd>>, <<hw, -hd>> >>)
      [] fp.shape = "t_shape" ->
            LET tw == IF fp.tab_w # 0 THEN fp.tab_w ELSE (outer_w * 4) \div 10
                td == IF fp.tab_d # 0 THEN fp.tab_d ELSE (outer_d  * 4) \div 10
                t2 == Half(tw)
            IN  Polyline(
                CASE fp.tab_side = "top" ->
                        << <<-hw, -hd>>, <<hw, -hd>>, <<hw, hd - td>>, <<t2, hd - td>>,
                           <<t2, hd>>, <<-t2, hd>>, <<-t2, hd - td>>, <<-hw, hd - td>> >>
                  [] fp.tab_side = "bottom" ->
                        << <<-t2, -hd>>, <<t2, -hd>>, <<t2, -hd + td>>, <<hw, -hd + td>>,
                           <<hw, hd>>, <<-hw, hd>>, <<-hw, -hd + td>>, <<-t2, -hd + td>> >>
                  [] fp.tab_side = "right" ->
                        << <<-hw, -hd>>, <<hw - td, -hd>>, <<hw - td, -t2>>, <<hw, -t2>>,
                           <<hw, t2>>, <<hw - td, t2>>, <<hw - td, hd>>, <<-hw, hd>> >>
                  [] OTHER ->
                        << <<-hw + td, -hd>>, <<hw, -hd>>, <<hw, hd>>, <<-hw + td, hd>>,
                           <<-hw + td, t2>>, <<-hw, t2>>, <<-hw, -t2>>, <<-hw + td, -t2>> >>)
      [] fp.shape = "u_shape" ->
            LET nw == IF fp.u_notch_w # 0 THEN fp.u_notch_w ELSE (outer_w  * 4) \div 10
                nd == IF fp.u_notch_d # 0 THEN fp.u_notch_d ELSE (outer_d  * 4) \div 10
                n2 == Half(nw)
            IN  Polyline(
                CASE fp.u_open_side = "top" ->
                        << <<-hw, -hd>>, <<hw, -hd>>, <<hw, hd>>, <<n2, hd>>,
                           <<n2, hd - nd>>, <<-n2, hd - nd>>, <<-n2, hd>>, <<-hw, hd>> >>
                  [] fp.u_open_side = "bottom" ->
                        << <<-hw, -hd>>, <<-n2, -hd>>, <<-n2, -hd + nd>>, <<n2, -hd + nd>>,
                           <<n2, -hd>>, <<hw, -hd>>, <<hw, hd>>, <<-hw, hd>> >>
                  [] fp.u_open_side = "right" ->
                        << <<-hw, -hd>>, <<hw, -hd>>, <<hw, -n2>>, <<hw - nd, -n2>>,
                           <<hw - nd, n2>>, <<hw, n2>>, <<hw, hd>>, <<-hw, hd>> >>
                  [] OTHER ->
                        << <<-hw, -hd>>, <<hw, -hd>>, <<hw, hd>>, <<-hw, hd>>,
                           <<-hw, n2>>, <<-hw + nd, n2>>, <<-hw + nd, -n2>>, <<-hw, -n2>> >>)
      [] fp.shape = "plus" ->
            LET aw == (outer_w * fp.arm_fraction) \div 200
                ad == (outer_d * fp.arm_fraction) \div 200
            IN  Polyline(
                << <<-aw, -hd>>, <<aw, -hd>>, <<aw, -ad>>, <<hw, -ad>>, <<hw, ad>>,
                   <<aw, ad>>, <<aw, hd>>, <<-aw, hd>>, <<-aw, ad>>, <<-hw, ad>>,
                   <<-hw, -ad>>, <<-aw, -ad>> >>)
      [] fp.shape \in {"hexagon", "octagon"} ->
            [kind |-> "polygon",
             sides |-> IF fp.shape = "hexagon" THEN 6 ELSE 8,
             r |-> Half(Min2(outer_w, outer_d))]
      [] OTHER -> Rect(outer_w, outer_d)

\* _build_footprint: the sketch by shape; a false (zero) notch or tab
\* parameter is replaced by a fraction of the width or depth argument.
_build_footprint(outer_w, outer_d, fp) ==
    LET hw == Half(outer_w)
        hd == Half(outer_d)
    IN
    CASE fp.shape = "rectangle" -> Rect(outer_w, outer_d)
      [] fp.shape = "l_shape" ->
            LET nw == IF fp.notch_w # 0 THEN fp.notch_w ELSE (outer_w * 4) \div 10
                nd == IF fp.notch_d # 0 THEN fp.notch_d ELSE (outer_d * 4) \div 10
            IN  Polyline(
                CASE fp.notch_corner = "top_right" ->
                        << <<-hw, -hd>>, <<hw, -hd>>, <<hw, hd - nd>>,
                           <<hw - nw, hd - nd>>, <<hw - nw, hd>>, <<-hw, hd>> >>
                  [] fp.notch_corner = "top_left" ->
                        << <<-hw, -hd>>, <<hw, -hd>>, <<hw, hd>>,
                           <<-hw + nw, hd>>, <<-hw + nw, hd - nd>>, <<-hw, hd - nd>> >>
                  [] fp.notch_corner = "bottom_right" ->
                        << <<-hw, -hd>>, <<hw - nw, -hd>>, <<hw - nw, -hd + nd>>,
                           <<hw, -hd + nd>>, <<hw, hd>>, <<-hw, hd>> >>
                  [] OTHER ->
                        << <<-hw + nw, -hd>>, <<-hw + nw, -hd + nd>>, <<-hw, -hd + nd>>,
                           <<-hw, hd>>, <<hw, hd>>, <<hw, -hd>> >>)
      [] fp.shape = "t_shape" ->
            LET tw == IF fp.tab_w # 0 THEN fp.tab_w ELSE (outer_w * 4) \div 10
                td == IF fp.tab_d # 0 THEN fp.tab_d ELSE (outer_d * 3) \div 10
                t2 == Half(tw)
            IN  Polyline(
                CASE fp.tab_side = "top" ->
                        << <<-hw, -hd>>, <<hw, -hd>>, <<hw, hd - td>>, <<t2, hd - td>>,
                           <<t2, hd>>, <<-t2, hd>>, <<-t2, hd - td>>, <<-hw, hd - td>> >>
                  [] fp.tab_side = "bottom" ->
                        << <<-t2, -hd>>, <<t2, -hd>>, <<t2, -hd + td>>, <<hw, -hd + td>>,
                           <<hw, hd>>, <<-hw, hd>>, <<-hw, -hd + td>>, <<-t2, -hd + td>> >>
                  [] fp.tab_side = "right" ->
                        << <<-hw, -hd>>, <<hw - td, -hd>>, <<hw - td, -t2>>, <<hw, -t2>>,
                           <<hw, t2>>, <<hw - td, t2>>, <<hw - td, hd>>, <<-hw, hd>> >>
                  [] OTHER ->
                        << <<-hw + td, -hd>>, <<hw, -hd>>, <<hw, hd>>, <<-hw + td, hd>>,
                           <<-hw + td, t2>>, <<-hw, t2>>, <<-hw, -t2>>, <<-hw + td, -t2>> >>)
      [] fp.shape = "u_shape" ->
            LET nw == IF fp.u_notch_w # 0 THEN fp.u_notch_w ELSE (outer_w * 5) \div 10
                nd == IF fp.u_notch_d # 0 THEN fp.u_notch_d ELSE (outer_d * 5) \div 10
                n2 == Half(nw)
            IN  Polyline(
                CASE fp.u_open_side = "top" ->
                        << <<-hw, -hd>>, <<hw, -hd>>, <<hw, hd>>, <<n2, hd>>,
                           <<n2, hd - nd>>, <<-n2, hd - nd>>, <<-n2, hd>>, <<-hw, hd>> >>
                  [] fp.u_open_side = "bottom" ->
                        << <<-hw, -hd>>, <<-n2, -hd>>, <<-n2, -hd + nd>>, <<n2, -hd + nd>>,
                           <<n2, -hd>>, <<hw, -hd>>, <<hw, hd>>, <<-hw, hd>> >>
                  [] fp.u_open_side = "right" ->
                        << <<-hw, -hd>>, <<hw, -hd>>, <<hw, -n2>>, <<hw - nd, -n2>>,
                           <<hw - nd, n2>>, <<hw, n2>>, <<hw, hd>>, <<-hw, hd>> >>
                  [] OTHER ->
                        << <<-hw, -hd>>, <<hw, -hd>>, <<hw, hd>>, <<-hw, hd>>,
                           <<-hw, n2>>, <<-hw + nd, n2>>, <<-hw + nd, -n2>>, <<-hw, -n2>> >>)
      [] fp.shape = "plus" ->
            LET aw == (outer_w * fp.arm_fraction) \div 200
                ad == (outer_d * fp.arm_fraction) \div 200
            IN  Polyline(
                << <<-aw, -hd>>, <<aw, -hd>>, <<aw, -ad>>, <<hw, -ad>>, <<hw, ad>>,
                   <<aw, ad>>, <<aw, hd>>, <<-aw, hd>>, <<-aw, ad>>, <<-hw, ad>>,
                   <<-hw, -ad>>, <<-aw, -ad>> >>)
      [] fp.shape \in {"hexagon", "octagon"} ->
            [kind |-> "polygon",
             sides |-> IF fp.shape = "hexagon" THEN 6 ELSE 8,
             r |-> Half(Min2(outer_w, outer_d))]
      [] OTHER -> Rect(outer_w, outer_d)

(***************************************************************************)
(* Cutout placement (generator.py _apply_connector_cutout,                 *)
(* _apply_custom_cutout).  outer_h is <<>> for None, else <<value>>.       *)
(***************************************************************************)
\* A variant whose top plane, without outer_h, is the middle of the cavity.
CutPosition_top_mid(face, offset_x, offset_y, inner_size, wall_thickness, inner_center, outer_h) ==
    CASE face = "front" ->
            << inner_center.x + offset_x,
               inner_center.y + Half(inner_size.y) + Half(wall_thickness),
               inner_center.z + offset_y >>
      [] face = "back" ->
            << inner_center.x + offset_x,
               inner_center.y - Half(inner_size.y) - Half(wall_thickness),
               inner_center.z + offset_y >>
      [] face = "right" ->
            << inner_center.x + Half(inner_size.x) + Half(wall_thickness),
               inner_center.y + offset_x,
               inner_center.z + offset_y >>
      [] face = "left" ->
            << inner_center.x - Half(inner_size.x) - Half(wall_thickness),
               inner_center.y + offset_x,
               inner_center.z + offset_y >>
      [] face = "top" ->
            << inner_center.x + offset_x,
               inner_center.y + offset_y,
               IF outer_h # <<>> THEN outer_h[1] ELSE inner_center.z >>
      [] face = "bottom" ->
            << inner_center.x + offset_x, inner_center.y + offset_y, 0 >>
      [] OTHER -> <<>>

\* pos_x, pos_y, pos_z of the cut by face; <<>> for a face that is none of
\* the six (the function returns the shell unchanged).
CutPosition(face, offset_x, offset_y, inner_size, wall_thickness, inner_center, outer_h) ==
    CASE face = "front" ->
            << inner_center.x + offset_x,
               inner_center.y + Half(inner_size.y) + Half(wall_thickness),
               inner_center.z + offset_y >>
      [] face = "back" ->
            << inner_center.x + offset_x,
               inner_center.y - Half(inner_size.y) - Half(wall_thickness),
               inner_center.z + offset_y >>
      [] face = "right" ->
            << inner_center.x + Half(inner_size.x) + Half(wall_thickness),
               inner_center.y + offset_x,
               inner_center.z + offset_y >>
      [] face = "left" ->
            << inner_center.x - Half(inner_size.x) - Half(wall_thickness),
               inner_center.y + offset_x,
               inner_center.z + offset_y >>
      [] face = "top" ->
            << inner_center.x + offset_x,
               inner_center.y + offset_y,
               IF outer_h # <<>> THEN outer_h[1]
               ELSE inner_center.z + Half(inner_size.z) >>
      [] face = "bottom" ->
            << inner_center.x + offset_x, inner_center.y + offset_y, 0 >>
      [] OTHER -> <<>>

\* cut_d = wall_thickness + 2
ConnectorCutDepth(wall_thickness) == wall_thickness + 2000

\* A variant that takes the cutout's depth as it is, 0 included.
CustomCutDepth_as_given(cutout, wall_thickness) == cutout.depth

\* cut_d = cutout.depth if cutout.depth > 0 else wall_thickness + 2
CustomCutDepth(cutout, wall_thickness) ==
    IF cutout.depth > 0 THEN cutout.depth ELSE wall_thickness + 2000

\* The cut volume of a connector cutout whose profile the catalog holds:
\* the profile sketched at pos and extruded by cut_d to both sides.
ConnectorCut(cutout, inner_size, wall_thickness, inner_center, outer_h) ==
    LET profile == get_profile(cutout.connector_type).profile
    IN  [feat |-> "cutout", kind |-> "connector", face |-> cutout.face,
         pos |-> CutPosition(cutout.face, cutout.offset_x, cutout.offset_y,
                             inner_size, wall_thickness, inner_center, outer_h),
         profile |-> IF profile.is_round
                     THEN [shape |-> "circle", r |-> Half(profile.diameter)]
                     ELSE [shape |-> "rectangle", w |-> profile.width,
                           h |-> profile.height],
         cut_d |-> ConnectorCutDepth(wall_thickness), both |-> TRUE, rot |-> 0,
         of |-> cutout]

\* make_profile of _apply_custom_cutout.
make_profile(shape, w, h) ==
    CASE shape = "rectangle" -> [shape |-> "rectangle", w |-> w, h |-> h]
      [] shape = "circle" -> [shape |-> "circle", r |-> Half(w)]
      [] shape = "hexagon" -> [shape |-> "polygon", sides |-> 6, r |-> Half(w)]
      [] shape = "triangle" -> [shape |-> "polygon", sides |-> 3, r |-> Half(w)]
      [] OTHER -> [shape |-> "rectangle", w |-> w, h |-> h]

\* The cut volume of a custom cutout.
CustomCut(cutout, inner_size, wall_thickness, inner_center, outer_h) ==
    [feat |-> "cutout", kind |-> "custom", face |-> cutout.face,
     pos |-> CutPosition(cutout.face, cutout.offset_x, cutout.offset_y,
                         inner_size, wall_thickness, inner_center, outer_h),
     profile |-> make_profile(cutout.shape, cutout.width, cutout.height),
     cut_d |-> CustomCutDepth(cutout, wall_thickness), both |-> TRUE,
     rot |-> cutout.rotation, of |-> cutout]

(***************************************************************************)
(* Screw bosses and lid holes.                                             *)
(***************************************************************************)
\* cq.Workplane("XY").cylinder(height, r).translate((x, y, cz)): the cylinder
\* is centred on its origin, so it spans cz -/+ height / 2.
Cyl(feat, x, y, cz, height, r) ==
    [feat |-> feat, x |-> x, y |-> y,
     zlo |-> cz - Half(height), zhi |-> cz + Half(height), r |-> r]

Signs == << <<1, 1>>, <<1, -1>>, <<-1, 1>>, <<-1, -1>> >>

\* A variant that insets by the boss radius alone.
ScrewInset_no_wall(boss_diameter, wall) == Half(boss_diameter)

\* inset = boss_r + wall
ScrewInset(boss_diameter, wall) == Half(boss_diameter) + wall

\* The four (bx, by) of the boss loop, about the centre (cx, cy).
ScrewPositions(cx, cy, inner_w, inner_d, inset) ==
    [i \in 1..4 |-> << cx + Signs[i][1] * (Half(inner_w) - inset),
                       cy + Signs[i][2] * (Half(inner_d) - inset) >>]

\* Step 4 of the fixed-shape generators: at each position a boss, then its
\* screw hole.
BaseBosses(config, inner, wall, floor, boss_h) ==
    LET boss_r  == Half(config.boss_diameter)
        screw_r == Half(config.screw_diameter)
        pos     == ScrewPositions(0, 0, inner.x, inner.y, ScrewInset(config.boss_diameter, wall))
    IN  [k \in 1..8 |->
            LET p == pos[(k + 1) \div 2]
            IN  IF k % 2 = 1
                THEN Cyl("boss", p[1], p[2], floor + Half(boss_h), boss_h, boss_r)
                ELSE Cyl("boss_hole", p[1], p[2], floor + Half(boss_h), boss_h + 1000, screw_r)]

\* The cuts _build_lid_screws makes at one position (bx, by).
LidHoleCuts(lid_hole_style, lid_t, screw_r, bx, by) ==
    IF lid_hole_style = "closed" THEN <<>>
    ELSE IF lid_hole_style = "countersunk"
    THEN LET head_r       == (screw_r * 18) \div 10
             pocket_depth == Min2(2000, lid_t - 500)
             shaft_depth  == lid_t - pocket_depth - 300
         IN  IF shaft_depth <= 0
             THEN << Cyl("through", bx, by, Half(lid_t), lid_t + 1000, screw_r) >>
             ELSE << Cyl("pocket", bx, by, lid_t - Half(pocket_depth),
                         pocket_depth + 1000, head_r),
                     Cyl("shaft", bx, by, Half(shaft_depth),
                         shaft_depth + 1000, screw_r) >>
    ELSE << Cyl("through", bx, by, Half(lid_t), lid_t + 1000, screw_r) >>

RECURSIVE Flatten(_)
Flatten(ss) == IF ss = <<>> THEN <<>> ELSE Head(ss) \o Flatten(Tail(ss))

\* _build_lid_screws: the cuts applied to the lid, in order.
_build_lid_screws(lid_style, lid_hole_style, lid_t, screw_r, inner_w, inner_d, boss_diameter, wall) ==
    IF lid_style # "screws" THEN <<>>
    ELSE LET pos == ScrewPositions(0, 0, inner_w, inner_d, ScrewInset(boss_diameter, wall))
         IN  Flatten([i \in 1..4 |->
                        LidHoleCuts(lid_hole_style, lid_t, screw_r, pos[i][1], pos[i][2])])

(***************************************************************************)
(* PCB standoffs (generator.py _add_pcb_standoffs).                        *)
(***************************************************************************)
\* The (sx, sy) of one component's standoffs.
StandoffPositions(comp, cavity_center_x, cavity_center_y) ==
    LET cq_cx == comp.position.x - cavity_center_x
        cq_cy == comp.position.y - cavity_center_y
    IN  IF comp.standoff_positions # <<>>
        THEN [i \in 1..Len(comp.standoff_positions) |->
                << comp.standoff_positions[i][1] + cq_cx,
                   comp.standoff_positions[i][2] + cq_cy >>]
        ELSE LET half_w == Half(comp.bbox_max.x - comp.bbox_min.x)
                 half_d == Half(comp.bbox_max.y - comp.bbox_min.y)
                 hw == Max2(half_w - 3000, 1000)
                 hd == Max2(half_d - 3000, 1000)
             IN  << <<cq_cx + hw, cq_cy + hd>>, <<cq_cx + hw, cq_cy - hd>>,
                    <<cq_cx - hw, cq_cy + hd>>, <<cq_cx - hw, cq_cy - hd>> >>

\* A variant whose standoffs have a radius of 2.5 times the screw diameter.
ComponentStandoffs_wide(comp, cavity_center_x, cavity_center_y, floor) ==
    IF ~comp.is_pcb \/ comp.ground_z <= 0 THEN <<>>
    ELSE LET pos == StandoffPositions(comp, cavity_center_x, cavity_center_y)
         IN  [i \in 1..Len(pos) |->
                [standoff |-> Cyl("standoff", pos[i][1], pos[i][2],
                                  floor + Half(comp.ground_z), comp.ground_z,
                                  (comp.pcb_screw_diameter * 25) \div 10),
                 drill |-> Cyl("standoff_drill", pos[i][1], pos[i][2],
                               floor + Half(comp.ground_z), comp.ground_z + 1000,
                               Half(comp.pcb_screw_diameter))]]

\* The standoff / drill pairs of one component; none unless is_pcb and
\* ground_z > 0.
ComponentStandoffs(comp, cavity_center_x, cavity_center_y, floor) ==
    IF ~comp.is_pcb \/ comp.ground_z <= 0 THEN <<>>
    ELSE LET outer_r == (comp.pcb_screw_diameter * 25) \div 20
             inner_r == Half(comp.pcb_screw_diameter)
             gz      == comp.ground_z
             pos     == StandoffPositions(comp, cavity_center_x, cavity_center_y)
         IN  [i \in 1..Len(pos) |->
                [standoff |-> Cyl("standoff", pos[i][1], pos[i][2],
                                  floor + Half(gz), gz, outer_r),
                 drill |-> Cyl("standoff_drill", pos[i][1], pos[i][2],
                               floor + Half(gz), gz + 1000, inner_r)]]

\* _add_pcb_standoffs: the pairs of all components, in order.
_add_pcb_standoffs(components, cavity_center_x, cavity_center_y, floor) ==
    Flatten([i \in 1..Len(components) |->
                ComponentStandoffs(components[i], cavity_center_x, cavity_center_y, floor)])

(***************************************************************************)
(* POST /generate (backend/api/routes.py, backend/api/schemas.py).         *)
(***************************************************************************)
\* PartConfigSchema defaults (it has no edge_style / chamfer_size).
DefaultPartSchema ==
    [style |-> "classic", fillet_radius |-> 1500, wall_thickness |-> 2500,
     lid_hole_style |-> "countersunk", tray_z |-> 0, tray_thickness |-> 2000,
     bracket_hole_diameter |-> 4000, enabled |-> TRUE]

\* EnclosureRequestSchema defaults; components are ComponentManualSchema
\* objects (the fields width .. standoff_positions of CompSpec).
DefaultRequest ==
    [components |-> <<>>, cutouts |-> <<>>, custom_cutouts |-> <<>>,
     padding_x |-> 3000, padding_y |-> 3000, padding_z |-> 3000,
     wall_thickness |-> 2500, floor_thickness |-> 2500, lid_thickness |-> 2000,
     lid_style |-> "screws", fillet_radius |-> 1500, screw_diameter |-> 3000,
     screw_length |-> 12000, lid_hole_style |-> "countersunk",
     enclosure_style |-> "classic", pcb_standoffs_enabled |-> TRUE,
     parts |-> [base |-> DefaultPartSchema, lid |-> DefaultPartSchema,
                tray |-> [DefaultPartSchema EXCEPT !.enabled = FALSE],
                bracket |-> [DefaultPartSchema EXCEPT !.enabled = FALSE]]]

\* The components_bbox list the route builds from the request.
RequestComponents(request) ==
    [i \in 1..Len(request.components) |->
        LET c == request.components[i]
        IN  [width |-> c.width, depth |-> c.depth, height |-> c.height,
             x |-> c.x, y |-> c.y,
             z |-> IF c.ground_z # 0 THEN c.ground_z ELSE c.z,
             hasGz |-> TRUE, ground_z |-> c.ground_z,
             qx |-> 0, qy |-> 0, qz |-> 0,
             is_pcb |-> c.is_pcb, pcb_screw_diameter |-> c.pcb_screw_diameter,
             standoff_positions |-> c.standoff_positions]]

\* ConnectorType(co.connector_type) raises ValueError, answered with HTTP
\* 400, for a string that is no member of the enum.
RequestCutoutsValid(request) ==
    \A i \in 1..Len(request.cutouts) :
        request.cutouts[i].connector_type \in ConnectorTypes

\* _schema_to_part
_schema_to_part(ps) ==
    [style |-> ps.style, fillet_radius |-> ps.fillet_radius,
     wall_thickness |-> ps.wall_thickness, lid_hole_style |-> ps.lid_hole_style,
     tray_z |-> ps.tray_z, tray_thickness |-> ps.tray_thickness,
     bracket_hole_diameter |-> ps.bracket_hole_diameter, enabled |-> ps.enabled,
     edge_style |-> DefaultPart.edge_style, chamfer_size |-> DefaultPart.chamfer_size]

\* The EnclosureConfig the route builds; fields it does not pass keep the
\* dataclass defaults.
RequestConfig(request) ==
    [DefaultConfig EXCEPT
        !.padding_x = request.padding_x, !.padding_y = request.padding_y,
        !.padding_z = request.padding_z,
        !.wall_thickness = request.wall_thickness,
        !.floor_thickness = request.floor_thickness,
        !.lid_thickness = request.lid_thickness,
        !.lid_style = request.lid_style,
        !.fillet_radius = request.fillet_radius,
        !.screw_diameter = request.screw_diameter,
        !.screw_length = request.screw_length,
        !.lid_hole_style = request.lid_hole_style,
        !.enclosure_style = request.enclosure_style,
        !.pcb_standoffs_enabled = request.pcb_standoffs_enabled,
        !.parts = [base |-> _schema_to_part(request.parts.base),
                   lid |-> _schema_to_part(request.parts.lid),
                   tray |-> _schema_to_part(request.parts.tray),
                   bracket |-> _schema_to_part(request.parts.bracket)],
        !.cutouts = request.cutouts,
        !.custom_cutouts = request.custom_cutouts]

\* round(x, 2): to the nearest 0.01 mm.
Round2(x) == ((x + 5) \div 10) * 10

\* The dimension summary of the response, computed by the route from the
\* components_bbox list and the request.
ResponseDimensions(components_bbox, request) ==
    LET C == Range(components_bbox)
        gz(c) == IF c.hasGz THEN c.ground_z ELSE c.z
        all_x == {c.x - Half(c.width) : c \in C} \cup {c.x + Half(c.width) : c \in C}
        all_y == {c.y - Half(c.depth) : c \in C} \cup {c.y + Half(c.depth) : c \in C}
        all_z == {gz(c) : c \in C} \cup {gz(c) + c.height : c \in C}
        inner_w == (SetMax(all_x) - SetMin(all_x)) + request.padding_x * 2
        inner_d == (SetMax(all_y) - SetMin(all_y)) + request.padding_y * 2
        inner_h == (SetMax(all_z) - SetMin(all_z)) + request.padding_z * 2
        wall == request.wall_thickness
    IN  [inner |-> Vec(Round2(inner_w), Round2(inner_d), Round2(inner_h)),
         outer |-> Vec(Round2(inner_w + wall * 2), Round2(inner_d + wall * 2),
                       Round2(inner_h + request.floor_thickness))]

NoResponse == [status |-> 0, files |-> {}, dimensions |-> <<>>]

(***************************************************************************)
(* Edge treatment and style modifiers.                                     *)
(***************************************************************************)
\* _apply_edges: the one operation attempted, if any.
_apply_edges(part_config, fillet_r) ==
    IF part_config.edge_style = "fillet" /\ fillet_r > 0
    THEN << [feat |-> "fillet", r |-> fillet_r] >>
    ELSE IF part_config.edge_style = "chamfer" /\ part_config.chamfer_size > 0
    THEN << [feat |-> "chamfer", size |-> part_config.chamfer_size] >>
    ELSE <<>>

\* The positions of one row of vent slots: from lo + 4 mm in steps of 8 mm
\* while below hi - 4 mm.
RECURSIVE SlotRow(_, _)
SlotRow(x, stop) == IF x < stop THEN <<x>> \o SlotRow(x + 8000, stop) ELSE <<>>

\* The heights of the ribs: from floor + 1.5 mm in steps of 15 mm while
\* below outer_h - 1.5 mm.
RECURSIVE RibLevels(_, _)
RibLevels(z, stop) == IF z < stop THEN <<z>> \o RibLevels(z + 15000, stop) ELSE <<>>

\* _apply_enclosure_style: the slots cut (vented) or ribs added (ribbed), in
\* order; try is the index of the try block an operation runs in.
_apply_enclosure_style(style, outer_w, outer_d, outer_h, wall, floor) ==
    IF style = "vented"
    THEN LET xs == SlotRow(-Half(outer_w) + 4000, Half(outer_w) - 4000)
             ys == SlotRow(-Half(outer_d) + 4000, Half(outer_d) - 4000)
             fb(sign) == [i \in 1..Len(xs) |->
                            [feat |-> "slot", x |-> xs[i], y |-> sign * Half(outer_d),
                             z |-> Half(outer_h), w |-> 2000, d |-> wall + 2000,
                             h |-> (outer_h * 6) \div 10]]
             lr(sign) == [i \in 1..Len(ys) |->
                            [feat |-> "slot", x |-> sign * Half(outer_w), y |-> ys[i],
                             z |-> Half(outer_h), w |-> wall + 2000, d |-> 2000,
                             h |-> (outer_h * 6) \div 10]]
             all == fb(1) \o fb(-1) \o lr(1) \o lr(-1)
         IN  [i \in 1..Len(all) |-> [op |-> "cut", try |-> i, f |-> all[i]]]
    ELSE IF style = "ribbed"
    THEN LET zs == RibLevels(floor + 1500, outer_h - 1500)
             level(i) ==
                << [feat |-> "rib", x |-> 0, y |-> Half(outer_d) + 750, z |-> zs[i],
                    w |-> outer_w + 3000, d |-> 1500, h |-> 3000],
                   [feat |-> "rib", x |-> 0, y |-> -(Half(outer_d) + 750), z |-> zs[i],
                    w |-> outer_w + 3000, d |-> 1500, h |-> 3000],
                   [feat |-> "rib", x |-> Half(outer_w) + 750, y |-> 0, z |-> zs[i],
                    w |-> 1500, d |-> outer_d + 3000, h |-> 3000],
                   [feat |-> "rib", x |-> -(Half(outer_w) + 750), y |-> 0, z |-> zs[i],
                    w |-> 1500, d |-> outer_d + 3000, h |-> 3000] >>
         IN  Flatten([i \in 1..Len(zs) |->
                        [j \in 1..4 |-> [op |-> "union", try |-> i, f |-> level(i)[j]]]])
    ELSE <<>>

(***************************************************************************)
(* Shape-following wrapper (backend/engine/wrapper.py).  A 2D region is    *)
(* kept symbolically: the component rectangles it is grown from, whether   *)
(* their union or its convex hull is taken, the mitred growth and the      *)
(* rounding radius.  Its bounds are exact for rounding radii below half    *)
(* the narrowest part of the region.                                       *)
(***************************************************************************)
\* _component_footprint: the rectangle of a component in world XY; a quarter
\* turn of rot_y exchanges its sides.
_component_footprint(comp_spec) ==
    LET w == IF comp_spec.qy = 1 THEN comp_spec.depth ELSE comp_spec.width
        d == IF comp_spec.qy = 1 THEN comp_spec.width ELSE comp_spec.depth
    IN  [minx |-> comp_spec.x - Half(w), miny |-> comp_spec.y - Half(d),
         maxx |-> comp_spec.x + Half(w), maxy |-> comp_spec.y + Half(d)]

\* Two rectangles belong to one polygon of the union when they share area or
\* a stretch of edge; a single common corner point does not join them.
Joined(a, b) ==
    LET ox == Min2(a.maxx, b.maxx) - Max2(a.minx, b.minx)
        oy == Min2(a.maxy, b.maxy) - Max2(a.miny, b.miny)
    IN  ox >= 0 /\ oy >= 0 /\ (ox > 0 \/ oy > 0)

RECURSIVE Reach(_, _)
Reach(R, all) ==
    LET N == R \cup {b \in all : \E a \in R : Joined(a, b)}
    IN  IF N = R THEN R ELSE Reach(N, all)

\* unary_union(footprints).geom_type == "MultiPolygon"
IsMultiPolygon(footprints) ==
    Reach({footprints[1]}, Range(footprints)) # Range(footprints)

\* A variant that keeps a disconnected union as it is.
UnionFootprint_no_hull(components_spec) ==
    [kind |-> "union",
     of |-> [i \in 1..Len(components_spec) |-> _component_footprint(components_spec[i])]]

\* The union footprint, replaced by its convex hull when disconnected.
UnionFootprint(components_spec) ==
    LET footprints == [i \in 1..Len(components_spec) |->
                          _component_footprint(components_spec[i])]
    IN  [kind |-> IF IsMultiPolygon(footprints) THEN "hull" ELSE "union",
         of |-> footprints]

\* .bounds of a region grown by grow: (minx, miny, maxx, maxy).
Bounds(region, grow) ==
    LET R == Range(region.of)
    IN  << SetMin({r.minx : r \in R}) - grow, SetMin({r.miny : r \in R}) - grow,
           SetMax({r.maxx : r \in R}) + grow, SetMax({r.maxy : r \in R}) + grow >>

\* c.get("ground_z", 0)
SpecGroundZ(comp_spec) == IF comp_spec.hasGz THEN comp_spec.ground_z ELSE 0

\* wrapper.py 86-113, 156-168: heights, offset polygons and the box used to
\* place cutouts and lid holes.
WrapperPlan(components_spec, config) ==
    LET C == Range(components_spec)
        min_z == SetMin({SpecGroundZ(c) : c \in C})
        max_z == SetMax({SpecGroundZ(c) + c.height : c \in C})
        inner_h == (max_z - min_z) + config.padding_z * 2
        outer_h == inner_h + config.floor_thickness
        pad == Max2(config.padding_x, config.padding_y)
        wall == config.wall_thickness
        fp == UnionFootprint(components_spec)
        r == Max2(config.fillet_radius, 0)
        bb == Bounds(fp, pad + wall)
        outer_w == bb[3] - bb[1]
        outer_d == bb[4] - bb[2]
    IN  [style |-> "", wall |-> wall, eff_fillet |-> config.fillet_radius,
         bbox_min |-> Vec(0, 0, 0), bbox_max |-> Vec(0, 0, 0),
         cavity_center_x |-> 0, cavity_center_y |-> 0,
         inner |-> Vec(outer_w - wall * 2, outer_d - wall * 2, inner_h),
         outer |-> Vec(outer_w, outer_d, outer_h),
         floor |-> config.floor_thickness, lid_t |-> config.lid_thickness,
         inner_center |-> Vec(Half(bb[1] + bb[3]), Half(bb[2] + bb[4]),
                              config.floor_thickness + Half(inner_h)),
         boss_h |-> 0, bounds |-> bb]

\* cavity_poly and outer_poly.
CavityPoly(components_spec, config) ==
    [kind |-> "grown", region |-> UnionFootprint(components_spec),
     grow |-> Max2(config.padding_x, config.padding_y),
     round |-> Half(Max2(config.fillet_radius, 0))]

OuterPoly(components_spec, config) ==
    [kind |-> "grown", region |-> UnionFootprint(components_spec),
     grow |-> Max2(config.padding_x, config.padding_y) + config.wall_thickness,
     round |-> Max2(config.fillet_radius, 0)]

\* The corner points of a set of rectangles.
Corners(R) ==
    UNION {{<<r.minx, r.miny>>, <<r.maxx, r.miny>>, <<r.maxx, r.maxy>>, <<r.minx, r.maxy>>} :
             r \in R}

\* The turn o -> a -> b: positive when counter-clockwise.  Coordinates are
\* taken in units of 0.1 mm to keep the products small.
Cross(o, a, b) ==
    ((a[1] - o[1]) \div 100) * ((b[2] - o[2]) \div 100)
        - ((a[2] - o[2]) \div 100) * ((b[1] - o[1]) \div 100)

\* p -> q is an edge of the convex hull of P, walked counter-clockwise: every
\* other point lies to its left or on it.
HullEdge(p, q, P) ==
    /\ p # q
    /\ \A r \in P \ {p, q} :
          \/ Cross(p, q, r) > 0
          \/ /\ Cross(p, q, r) = 0
             /\ Min2(p[1], q[1]) <= r[1] /\ r[1] <= Max2(p[1], q[1])
             /\ Min2(p[2], q[2]) <= r[2] /\ r[2] <= Max2(p[2], q[2])

\* .convex_hull: the vertices of the convex hull of a set of points.
convex_hull(P) == {p \in P : \E q \in P : HullEdge(p, q, P)}

\* The vertices of the union of a set of rectangles: the grid points around
\* which one or three of the four quadrants are covered, or two opposite ones.
UnionVertices(R) ==
    LET cov(v, right, up) ==
            \E r \in R :
                /\ IF right THEN r.minx <= v[1] /\ v[1] < r.maxx
                   ELSE r.minx < v[1] /\ v[1] <= r.maxx
                /\ IF up THEN r.miny <= v[2] /\ v[2] < r.maxy
                   ELSE r.miny < v[2] /\ v[2] <= r.maxy
        n(v) == Cardinality({q \in BOOLEAN \X BOOLEAN : cov(v, q[1], q[2])})
    IN  {v \in ({r.minx : r \in R} \cup {r.maxx : r \in R})
               \X ({r.miny : r \in R} \cup {r.maxy : r \in R}) :
            \/ n(v) \in {1, 3}
            \/ n(v) = 2 /\ (cov(v, TRUE, TRUE) = cov(v, FALSE, FALSE))}

\* A grown region is one polygon when it is a hull, or when the rectangles,
\* each grown by the same margin, hang together.
IsSinglePolygon(polygon) ==
    \/ polygon.region.kind = "hull"
    \/ ~IsMultiPolygon([i \in 1..Len(polygon.region.of) |->
                           [minx |-> polygon.region.of[i].minx - polygon.grow,
                            miny |-> polygon.region.of[i].miny - polygon.grow,
                            maxx |-> polygon.region.of[i].maxx + polygon.grow,
                            maxy |-> polygon.region.of[i].maxy + polygon.grow]])

\* polygon.exterior.coords without the closing point: the vertices of the
\* region before it is grown; mitred growth keeps their number for a hull
\* and rounding adds to it.
ExteriorCoords(polygon) ==
    IF polygon.region.kind = "hull"
    THEN convex_hull(Corners(Range(polygon.region.of)))
    ELSE UnionVertices(Range(polygon.region.of))

\* _shapely_to_cq_wire: a MultiPolygon has no exterior (AttributeError);
\* fewer than three points raise ValueError.
_shapely_to_cq_wire(polygon) ==
    IF ~IsSinglePolygon(polygon) THEN [ok |-> FALSE, err |-> "AttributeError"]
    ELSE IF Cardinality(ExteriorCoords(polygon)) < 3
    THEN [ok |-> FALSE, err |-> "ValueError"]
    ELSE [ok |-> TRUE, err |-> ""]

\* wrapper.py 126-150: boss and drill at the four corners of every raised
\* PCB; the cylinders are centred at gz / 2.
WrapperStandoffs(components_spec) ==
    Flatten([i \in 1..Len(components_spec) |->
        LET comp == components_spec[i]
            gz == SpecGroundZ(comp)
            boss_r == (comp.pcb_screw_diameter * 125) \div 100
            screw_r == Half(comp.pcb_screw_diameter)
            inset == (boss_r * 15) \div 10
        IN  IF ~comp.is_pcb \/ gz <= 0 THEN <<>>
            ELSE Flatten([j \in 1..4 |->
                    LET bx == comp.x + Signs[j][1] * (Half(comp.width) - inset)
                        by == comp.y + Signs[j][2] * (Half(comp.depth) - inset)
                    IN  << Cyl("standoff", bx, by, Half(gz), gz, boss_r),
                           Cyl("standoff_drill", bx, by, Half(gz), gz + 1000, screw_r) >>])])

\* wrapper.py 209-223: a clearance hole through the lid at each of the four
\* positions, about the centre of the outer bounds.
WrapperLidHoles(config, bb, inner_w, inner_d, wall) ==
    LET pos == ScrewPositions(Half(bb[1] + bb[3]), Half(bb[2] + bb[4]), inner_w, inner_d,
                              ScrewInset(config.boss_diameter, wall))
    IN  [i \in 1..4 |-> Cyl("through", pos[i][1], pos[i][2], Half(config.lid_thickness),
                            config.lid_thickness + 1000, Half(config.screw_diameter))]

(***************************************************************************)
(* The kernel as environment.                                              *)
(***************************************************************************)
K(part, stage, op) == [part |-> part, stage |-> stage, op |-> op, ok |-> TRUE]
Failed(k) == [k EXCEPT !.ok = FALSE]

\* Which of the n kernel calls of a stage fails: 0 for none.
FaultAt(stage, n) == IF stage \in kernel THEN 0..n ELSE {0}

\* ops issued up to and including the failing k-th.
UpTo(ops, k) == SubSeq(ops, 1, k - 1) \o << Failed(ops[k]) >>

\* What a finished call hands back: the parts of its result and its
\* dimension summary (the inner and outer sizes it prints, and under the
\* route the dimensions of the response).
NoOutcome == [parts |-> {}, inner |-> Vec(0, 0, 0), outer |-> Vec(0, 0, 0),
              dimensions |-> <<>>, run |-> FALSE]
Outcome ==
    [parts |-> result \cap PartNames, inner |-> plan.inner, outer |-> plan.outer,
     dimensions |-> resp.dimensions, run |-> TRUE]

\* The output directory as a run finds it: the route has just made the job
\* directory; a direct caller's directory exists when an earlier run or
\* anything else left files in it.
DirExists == mode = "api" \/ files # {} \/ prev # NoOutcome

\* A variant of mkdir that refuses an existing directory (exist_ok=False).
mkdir_exclusive(exists) == ~exists

\* output_path.mkdir(parents=True, exist_ok=True): succeeds whether or not
\* the directory exists.
mkdir(exists) == exists \/ ~exists

\* An exception leaves the engine: the direct caller sees it; the route
\* answers HTTP 500.
Raise(e) ==
    /\ pc' = "failed"
    /\ err' = e
    /\ resp' = IF mode = "api"
               THEN [status |-> 500, files |-> {}, dimensions |-> <<>>]
               ELSE resp

\* A mandatory sequence of kernel calls: all succeed and eff holds, or the
\* k-th raises and the run ends.
Mandatory(ops, next, eff) ==
    \E k \in FaultAt(IF ops = <<>> THEN "" ELSE ops[1].stage, Len(ops)) :
        IF k = 0
        THEN /\ klog' = klog \o ops
             /\ pc' = next
             /\ UNCHANGED <<err, resp>>
             /\ eff
        ELSE /\ klog' = klog \o UpTo(ops, k)
             /\ Raise("GeometryOperationFailed")
             /\ UNCHANGED <<base, lid, extras, todo, result, files>>

(***************************************************************************)
(* Fixed-shape generation: generate_from_manual_bbox ("manual", and "api"  *)
(* through the route) and generate_enclosure ("enclosure").                *)
(***************************************************************************)
Fixed == mode \in {"manual", "enclosure", "api"}
const == <<mode, req, specs, cfg, kernel, prev>>

\* bbox_only.py 107-148: the dicts become Components with their boxes.
Convert ==
    /\ pc = "convert"
    /\ comps' = [i \in 1..Len(specs) |-> ManualComponent(specs[i])]
    /\ pc' = "resolve"
    /\ UNCHANGED <<const, plan, base, lid, extras, todo, klog, diag, result, err,
                   files, resp>>

\* bbox_only.py 150-168, generator.py 574-592: per-part configs, style, wall,
\* fillet; the output directory is created.
Resolve ==
    /\ pc = "resolve"
    /\ IF ~mkdir(DirExists)
       THEN /\ Raise("FileExistsError")
            /\ UNCHANGED plan
       ELSE /\ plan' = [plan EXCEPT !.style = EffectiveStyle(cfg),
                                    !.wall = EffectiveWall(cfg),
                                    !.eff_fillet = EffectiveFillet(cfg)]
            /\ pc' = IF mode = "enclosure" THEN "load" ELSE "dims"
            /\ UNCHANGED <<err, resp>>
    /\ UNCHANGED <<const, comps, base, lid, extras, todo, klog, diag, result, files>>

\* generator.py 595-597: every component file is loaded.
Load ==
    /\ pc = "load"
    /\ comps' = [i \in 1..Len(specs) |-> load_component_bbox(specs[i])]
    /\ pc' = "dims"
    /\ UNCHANGED <<const, plan, base, lid, extras, todo, klog, diag, result, err,
                   files, resp>>

\* bbox_only.py 170-191, generator.py 600-624: combined box, cavity and outer
\* dimensions; ValueError on an empty component list.
Dims ==
    /\ pc = "dims"
    /\ LET bb == compute_combined_bbox(comps)
           inner == InnerSize(bb.bbox_min, bb.bbox_max, cfg)
       IN  IF ~bb.ok
           THEN /\ Raise("EmptyInput")
                /\ UNCHANGED plan
           ELSE /\ plan' = [plan EXCEPT
                        !.bbox_min = bb.bbox_min, !.bbox_max = bb.bbox_max,
                        !.cavity_center_x = Half(bb.bbox_min.x + bb.bbox_max.x),
                        !.cavity_center_y = Half(bb.bbox_min.y + bb.bbox_max.y),
                        !.inner = inner,
                        !.floor = cfg.floor_thickness,
                        !.lid_t = cfg.lid_thickness,
                        !.outer = OuterSize(inner, plan.wall, cfg.floor_thickness),
                        !.inner_center = Vec(0, 0, cfg.floor_thickness + Half(inner.z)),
                        !.boss_h = BossHeight(cfg)]
                /\ pc' = "shell"
                /\ UNCHANGED <<err, resp>>
    /\ UNCHANGED <<const, comps, base, lid, extras, todo, klog, diag, result, files>>

\* bbox_only.py 194-199, generator.py 627-632: extrude the outer footprint,
\* extrude the cavity footprint lifted by the floor, subtract.
Shell ==
    /\ pc = "shell"
    /\ Mandatory(<< K("base", "shell", "extrude"), K("base", "shell", "extrude"),
                    K("base", "shell", "cut") >>,
                 "edges",
                 /\ base' = << [feat |-> "outer",
                                fp |-> _build_footprint(plan.outer.x, plan.outer.y, cfg.footprint),
                                h |-> plan.outer.z],
                               [feat |-> "cavity",
                                fp |-> _build_footprint(plan.inner.x, plan.inner.y, cfg.footprint),
                                h |-> plan.inner.z, z |-> plan.floor] >>
                 /\ UNCHANGED <<lid, extras, todo, result, files>>)
    /\ UNCHANGED <<const, comps, plan, diag>>

\* bbox_only.py 201, generator.py 634: fillet or chamfer of the base, skipped
\* silently when the kernel refuses.
Edges ==
    /\ pc = "edges"
    /\ LET t == _apply_edges(_get_part(cfg, "base"), plan.eff_fillet)
       IN  IF t = <<>>
           THEN UNCHANGED <<base, klog>>
           ELSE \E k \in FaultAt("edges", 1) :
                   /\ klog' = Append(klog, IF k = 0 THEN K("base", "edges", t[1].feat)
                                           ELSE Failed(K("base", "edges", t[1].feat)))
                   /\ base' = IF k = 0 THEN base \o t ELSE base
    /\ pc' = "bosses"
    /\ UNCHANGED <<const, comps, plan, lid, extras, todo, diag, result, err, files, resp>>

\* bbox_only.py 204-217, generator.py 637-659: the four corner bosses with
\* their screw holes (lid style screws, style not minimal); then the
\* standoff list is computed.
Bosses ==
    /\ pc = "bosses"
    /\ LET feats == IF cfg.lid_style = "screws" /\ plan.style # "minimal"
                    THEN BaseBosses(cfg, plan.inner, plan.wall, plan.floor, plan.boss_h)
                    ELSE <<>>
           ops == [i \in 1..Len(feats) |->
                     K("base", "bosses", IF i % 2 = 1 THEN "union" ELSE "cut")]
       IN  Mandatory(ops, "standoffs",
                     /\ base' = base \o feats
                     /\ todo' = IF cfg.pcb_standoffs_enabled
                                THEN _add_pcb_standoffs(comps, plan.cavity_center_x,
                                                        plan.cavity_center_y, plan.floor)
                                ELSE <<>>
                     /\ UNCHANGED <<lid, extras, result, files>>)
    /\ UNCHANGED <<const, comps, plan, diag>>

\* generator.py 453-467: one standoff; a kernel fault skips it with a warning.
Standoff ==
    /\ pc = "standoffs" /\ Fixed /\ todo # <<>>
    /\ LET ops == << K("base", "standoffs", "union"), K("base", "standoffs", "cut") >>
           s == Head(todo)
       IN  \E k \in FaultAt("standoffs", 2) :
              /\ klog' = klog \o (IF k = 0 THEN ops ELSE UpTo(ops, k))
              /\ base' = IF k = 0 THEN base \o << s.standoff, s.drill >> ELSE base
              /\ diag' = IF k = 0 THEN diag
                         ELSE Append(diag, [warn |-> "PCB standoff skipped", at |-> s.standoff])
    /\ todo' = Tail(todo)
    /\ UNCHANGED <<pc, const, comps, plan, lid, extras, result, err, files, resp>>

StandoffsDone ==
    /\ pc = "standoffs" /\ Fixed /\ todo = <<>>
    /\ pc' = "cutouts"
    /\ todo' = cfg.cutouts
    /\ UNCHANGED <<const, comps, plan, base, lid, extras, klog, diag, result, err,
                   files, resp>>

\* The outer_h argument of the cutout functions: the fixed-shape generators
\* pass outer_h, the wrapper passes nothing (None).
OuterHArg == IF mode = "wrapper" THEN <<>> ELSE <<plan.outer.z>>

\* bbox_only.py 220-224, generator.py 662-666, wrapper.py 170-174: one
\* connector cutout inside try / except: a catalog miss (get_profile raises) or a failing cut is
\* printed as a warning and the loop goes on.
ConnectorCutout ==
    /\ pc = "cutouts" /\ todo # <<>>
    /\ LET c == Head(todo)
           f == ConnectorCut(c, plan.inner, plan.wall, plan.inner_center, OuterHArg)
       IN  IF ~get_profile(c.connector_type).found
           THEN /\ diag' = Append(diag, [warn |-> "cutout skipped", at |-> c])
                /\ UNCHANGED <<base, klog>>
           ELSE \E k \in FaultAt("cutouts", 1) :
                   /\ klog' = Append(klog, IF k = 0 THEN K("base", "cutouts", "cut")
                                           ELSE Failed(K("base", "cutouts", "cut")))
                   /\ base' = IF k = 0 THEN Append(base, f) ELSE base
                   /\ diag' = IF k = 0 THEN diag
                              ELSE Append(diag, [warn |-> "cutout skipped", at |-> c])
    /\ todo' = Tail(todo)
    /\ UNCHANGED <<pc, const, comps, plan, lid, extras, result, err, files, resp>>

CutoutsDone ==
    /\ pc = "cutouts" /\ todo = <<>>
    /\ pc' = "custom"
    /\ todo' = cfg.custom_cutouts
    /\ UNCHANGED <<const, comps, plan, base, lid, extras, klog, diag, result, err,
                   files, resp>>

\* generator.py 283-333 (called from bbox_only.py 227-228, generator.py
\* 669-670, wrapper.py 176-180): one custom cutout; its own try / except
\* prints a warning when the kernel fails.
CustomCutout ==
    /\ pc = "custom" /\ todo # <<>>
    /\ LET c == Head(todo)
           f == CustomCut(c, plan.inner, plan.wall, plan.inner_center, OuterHArg)
       IN  \E k \in FaultAt("custom", 1) :
              /\ klog' = Append(klog, IF k = 0 THEN K("base", "custom", "cut")
                                      ELSE Failed(K("base", "custom", "cut")))
              /\ base' = IF k = 0 THEN Append(base, f) ELSE base
              /\ diag' = IF k = 0 THEN diag
                         ELSE Append(diag, [warn |-> "Could not apply custom cutout", at |-> c])
    /\ todo' = Tail(todo)
    /\ UNCHANGED <<pc, const, comps, plan, lid, extras, result, err, files, resp>>

CustomDone ==
    /\ pc = "custom" /\ todo = <<>>
    /\ pc' = IF mode = "wrapper" THEN "export_base" ELSE "style"
    /\ UNCHANGED <<const, comps, plan, base, lid, extras, todo, klog, diag, result,
                   err, files, resp>>

\* A variant that goes on to the lid with the base not yet exported.
Style_lid_first ==
    /\ pc = "style"
    /\ pc' = "lid"
    /\ UNCHANGED <<const, comps, plan, base, lid, extras, todo, klog, diag, result, err,
                   files, resp>>

\* bbox_only.py 231, generator.py 673: the style modifier.  A failing
\* operation ends its own try block silently: what the block had already
\* applied stays, the rest of the block is not attempted, the following
\* blocks run.
Style ==
    /\ pc = "style"
    /\ LET ops == _apply_enclosure_style(plan.style, plan.outer.x, plan.outer.y,
                                         plan.outer.z, plan.wall, plan.floor)
           issued(k) == {i \in 1..Len(ops) :
                            k = 0 \/ ops[i].try # ops[k].try \/ i <= k}
           kept(k) == {i \in issued(k) : i # k}
           log(k) == [i \in 1..Len(ops) |->
                        IF i = k THEN Failed(K("base", "style", ops[i].op))
                        ELSE K("base", "style", ops[i].op)]
           pick(I) == SelectSeq([i \in 1..Len(ops) |-> i], LAMBDA i : i \in I)
       IN  \E k \in FaultAt("style", Len(ops)) :
              /\ klog' = klog \o [j \in 1..Len(pick(issued(k))) |-> log(k)[pick(issued(k))[j]]]
              /\ base' = base \o [j \in 1..Len(pick(kept(k))) |-> ops[pick(kept(k))[j]].f]
    /\ pc' = "export_base"
    /\ UNCHANGED <<const, comps, plan, lid, extras, todo, diag, result, err, files, resp>>

\* _export_shape and the result bookkeeping after it.  The STL export is
\* unguarded; the 3MF export is tried and its failure ignored.
ExportStage ==
    [export_base |-> "base", export_lid |-> "lid",
     export_tray |-> "tray", export_bracket |-> "bracket"]
Stl(part) == [part |-> part, ext |-> "stl"]
Mf3(part) == [part |-> part, ext |-> "3mf"]
AfterExport(part) ==
    CASE part = "base" -> "lid"
      [] part = "lid" -> (IF mode = "wrapper" THEN "finish" ELSE "tray")
      [] part = "tray" -> "bracket"
      [] OTHER -> "finish"

\* The fixed-shape generators test that the .3mf file exists
\* (bbox_only.py 237, 283; generator.py 679, 727); the wrapper adds the key
\* inside the try block of the export itself (wrapper.py 188-193, 229-234).
Has3mf(part, exported, present) ==
    IF mode = "wrapper" THEN exported ELSE Mf3(part) \in present

Export ==
    /\ pc \in DOMAIN ExportStage
    /\ LET part == ExportStage[pc]
           ops == << K(part, "export", "stl"), K(part, "export", "3mf") >>
       IN  \E k \in FaultAt("export", 2) :
              IF k = 1
              THEN /\ klog' = klog \o UpTo(ops, 1)
                   /\ Raise("GeometryOperationFailed")
                   /\ UNCHANGED <<result, files>>
              ELSE /\ klog' = klog \o (IF k = 0 THEN ops ELSE UpTo(ops, 2))
                   /\ files' = files \cup {Stl(part)} \cup (IF k = 0 THEN {Mf3(part)} ELSE {})
                   /\ result' = result \cup {part}
                            \cup (IF part \in {"base", "lid"} /\ Has3mf(part, k = 0, files')
                                  THEN {IF part = "base" THEN "base_3mf" ELSE "lid_3mf"}
                                  ELSE {})
                   /\ pc' = AfterExport(part)
                   /\ UNCHANGED <<err, resp>>
    /\ UNCHANGED <<const, comps, plan, base, lid, extras, todo, diag>>

\* lid_fillet of generate_from_manual_bbox (bbox_only.py 242-247).
ManualLidFillet(config) ==
    LET lid_style_str == EffectiveStyle(config)
    IN  IF lid_style_str = "minimal" THEN 0
        ELSE IF lid_style_str = "rounded" THEN 3000
        ELSE _get_part(config, "lid").fillet_radius

\* lid_fillet of generate_enclosure (generator.py 684-689).
EnclosureLidFillet(config) ==
    LET base_part == _get_part(config, "base")
        lid_part  == _get_part(config, "lid")
    IN  IF lid_part.style = "minimal" THEN 0
        ELSE IF base_part.style = "rounded" \/ lid_part.style = "rounded" THEN 3000
        ELSE lid_part.fillet_radius

\* lid_hole_style = lid_part.lid_hole_style if lid_part.lid_hole_style else
\* config.lid_hole_style
EffectiveLidHoleStyle(config) ==
    LET lid_part == _get_part(config, "lid")
    IN  IF lid_part.lid_hole_style # "" THEN lid_part.lid_hole_style
        ELSE config.lid_hole_style

\* The snap rim: a box of the cavity size unioned on the lid, then hollowed.
SnapRim(config, inner, wall, lid_t) ==
    LET rim_h == config.snap_depth * 2
    IN  << [feat |-> "rim", w |-> inner.x, d |-> inner.y, h |-> rim_h,
            z |-> lid_t + Half(rim_h)],
           [feat |-> "rim_inner", w |-> inner.x - wall * 2, d |-> inner.y - wall * 2,
            h |-> rim_h + 1000, z |-> lid_t + Half(rim_h)] >>

\* bbox_only.py 241-251, generator.py 683-694, 710, wrapper.py 196-199: no
\* lid for style none, else the outer footprint extruded by the lid
\* thickness.
LidPlate ==
    /\ pc = "lid"
    /\ IF cfg.lid_style = "none"
       THEN /\ pc' = IF mode = "wrapper" THEN "finish" ELSE "tray"
            /\ UNCHANGED <<lid, klog, err, resp, extras, todo, result, files>>
       ELSE Mandatory(<< K("lid", "plate", "extrude") >>, "lid_edges",
                      /\ lid' = << [feat |-> "plate",
                                    fp |-> IF mode = "wrapper" THEN OuterPoly(specs, cfg)
                                           ELSE _build_footprint(plan.outer.x, plan.outer.y,
                                                                 cfg.footprint),
                                    h |-> plan.lid_t] >>
                      /\ UNCHANGED <<base, extras, todo, result, files>>)
    /\ UNCHANGED <<const, comps, plan, base, diag>>

\* bbox_only.py 252, generator.py 695, wrapper.py 202-206: edge treatment of
\* the lid; generate_enclosure applies none to a snap lid.
LidEdges ==
    /\ pc = "lid_edges"
    /\ LET t == IF mode = "wrapper"
                THEN (IF cfg.fillet_radius > 0
                      THEN << [feat |-> "fillet", r |-> cfg.fillet_radius] >>
                      ELSE <<>>)
                ELSE IF mode = "enclosure"
                THEN (IF cfg.lid_style = "screws"
                      THEN _apply_edges(_get_part(cfg, "lid"), EnclosureLidFillet(cfg))
                      ELSE <<>>)
                ELSE _apply_edges(_get_part(cfg, "lid"), ManualLidFillet(cfg))
       IN  IF t = <<>>
           THEN UNCHANGED <<lid, klog>>
           ELSE \E k \in FaultAt("edges", 1) :
                   /\ klog' = Append(klog, IF k = 0 THEN K("lid", "edges", t[1].feat)
                                           ELSE Failed(K("lid", "edges", t[1].feat)))
                   /\ lid' = IF k = 0 THEN lid \o t ELSE lid
    /\ pc' = "lid_fasten"
    /\ UNCHANGED <<const, comps, plan, base, extras, todo, diag, result, err, files, resp>>

\* bbox_only.py 254-278, generator.py 697-722, wrapper.py 209-223: the screw
\* holes or the snap rim (the wrapper builds no rim); none of these kernel
\* calls is guarded.
LidFasten ==
    /\ pc = "lid_fasten"
    /\ LET feats == IF mode = "wrapper"
                    THEN (IF cfg.lid_style = "screws"
                          THEN WrapperLidHoles(cfg, plan.bounds, plan.inner.x, plan.inner.y,
                                               plan.wall)
                          ELSE <<>>)
                    ELSE IF cfg.lid_style = "screws"
                    THEN _build_lid_screws("screws", EffectiveLidHoleStyle(cfg), plan.lid_t,
                                           Half(cfg.screw_diameter), plan.inner.x,
                                           plan.inner.y, cfg.boss_diameter, plan.wall)
                    ELSE SnapRim(cfg, plan.inner, plan.wall, plan.lid_t)
           ops == [i \in 1..Len(feats) |->
                     K("lid", "fasten", IF feats[i].feat = "rim" THEN "union" ELSE "cut")]
       IN  Mandatory(ops, "export_lid",
                     /\ lid' = lid \o feats
                     /\ UNCHANGED <<base, extras, todo, result, files>>)
    /\ UNCHANGED <<const, comps, plan, base, diag>>

\* bbox_only.py 287-299, generator.py 731-743: the tray plate when the tray
\* part is enabled.
TrayPlate(config, inner, floor) ==
    LET tray_part == _get_part(config, "tray")
    IN  [feat |-> "tray", w |-> inner.x - 2000 * 2, d |-> inner.y - 2000 * 2,
         h |-> tray_part.tray_thickness,
         z |-> floor + tray_part.tray_z + Half(tray_part.tray_thickness)]

Tray ==
    /\ pc = "tray"
    /\ IF _get_part(cfg, "tray").enabled
       THEN /\ extras' = [extras EXCEPT !.tray = << TrayPlate(cfg, plan.inner, plan.floor) >>]
            /\ pc' = "export_tray"
       ELSE /\ pc' = "bracket"
            /\ UNCHANGED extras
    /\ UNCHANGED <<const, comps, plan, base, lid, todo, klog, diag, result, err,
                   files, resp>>

\* bbox_only.py 306-340, generator.py 750-781: back plate and flange, then
\* the two mounting holes.
BracketPlates(config, wall, outer_h) ==
    LET bracket_part == _get_part(config, "bracket")
        bracket_t == IF bracket_part.wall_thickness # 0 THEN bracket_part.wall_thickness
                     ELSE wall
        bracket_h == (outer_h * 6) \div 10
    IN  << [feat |-> "back_plate", w |-> 30000, d |-> bracket_t, h |-> bracket_h,
            z |-> Half(bracket_h)],
           [feat |-> "flange", w |-> 30000, d |-> 12000, h |-> bracket_t,
            y |-> 6000, z |-> bracket_h] >>

BracketHoles(config, wall, outer_h) ==
    LET bracket_part == _get_part(config, "bracket")
        bracket_t == IF bracket_part.wall_thickness # 0 THEN bracket_part.wall_thickness
                     ELSE wall
        bracket_h == (outer_h * 6) \div 10
    IN  << [feat |-> "mount_hole", z |-> (bracket_h * 25) \div 100,
            len |-> bracket_t + 2000, r |-> Half(bracket_part.bracket_hole_diameter)],
           [feat |-> "mount_hole", z |-> (bracket_h * 75) \div 100,
            len |-> bracket_t + 2000, r |-> Half(bracket_part.bracket_hole_diameter)] >>

\* The union of the plates is unguarded; each hole cut is tried and its
\* failure ignored.
Bracket ==
    /\ pc = "bracket"
    /\ IF ~_get_part(cfg, "bracket").enabled
       THEN /\ pc' = "finish"
            /\ UNCHANGED <<extras, klog, err, resp>>
       ELSE LET plates == BracketPlates(cfg, plan.wall, plan.outer.z)
                holes == BracketHoles(cfg, plan.wall, plan.outer.z)
                ops == << K("bracket", "plates", "union"), K("bracket", "plates", "cut"),
                          K("bracket", "plates", "cut") >>
            IN  \E k \in FaultAt("plates", 3) :
                   IF k = 1
                   THEN /\ klog' = klog \o UpTo(ops, 1)
                        /\ Raise("GeometryOperationFailed")
                        /\ UNCHANGED extras
                   ELSE /\ klog' = klog \o [i \in 1..3 |-> IF i = k THEN Failed(ops[i])
                                                           ELSE ops[i]]
                        /\ extras' = [extras EXCEPT !.bracket =
                                        plates \o SelectSeq(holes, LAMBDA h :
                                                     k = 0 \/ h # holes[k - 1])]
                        /\ pc' = "export_bracket"
                        /\ UNCHANGED <<err, resp>>
    /\ UNCHANGED <<const, comps, plan, base, lid, todo, diag, result, files>>

\* The generator returns its result dict; under the route the response is
\* still to be built.
Finish ==
    /\ pc = "finish"
    /\ pc' = IF mode = "api" THEN "respond" ELSE "done"
    /\ UNCHANGED <<const, comps, plan, base, lid, extras, todo, klog, diag, result,
                   err, files, resp>>

(***************************************************************************)
(* POST /generate: the route around generate_from_manual_bbox.             *)
(***************************************************************************)
\* routes.py 193-287: the job directory, the component dicts, the cutout
\* lists (HTTP 400 for a connector type outside the enum) and the config.
\* The request body has passed schema validation (components min_length 1).
ApiBuild ==
    /\ pc = "api_build"
    /\ IF ~RequestCutoutsValid(req)
       THEN /\ pc' = "failed"
            /\ err' = "InvalidConnector"
            /\ resp' = [status |-> 400, files |-> {}, dimensions |-> <<>>]
            /\ UNCHANGED <<specs, cfg>>
       ELSE /\ specs' = RequestComponents(req)
            /\ cfg' = RequestConfig(req)
            /\ pc' = "convert"
            /\ UNCHANGED <<err, resp>>
    /\ UNCHANGED <<mode, req, kernel, prev, comps, plan, base, lid, extras, todo, klog, diag,
                   result, files>>

\* routes.py 299-328: the download links of the parts in the result and the
\* dimension summary.
ApiRespond ==
    /\ pc = "respond"
    /\ resp' = [status |-> 200,
                files |-> result \cap {"base", "lid", "tray", "bracket"},
                dimensions |-> ResponseDimensions(specs, req)]
    /\ pc' = "done"
    /\ UNCHANGED <<const, comps, plan, base, lid, extras, todo, klog, diag, result,
                   err, files>>

(***************************************************************************)
(* Wrapper generation: generate_wrapper_enclosure.                         *)
(***************************************************************************)
\* wrapper.py 72-113, 156-168: the empty check comes first, then the output
\* directory, the footprint union and every derived dimension.
W_Plan ==
    /\ pc = "w_plan"
    /\ IF specs = <<>>
       THEN /\ Raise("EmptyInput")
            /\ UNCHANGED plan
       ELSE IF ~mkdir(DirExists)
       THEN /\ Raise("FileExistsError")
            /\ UNCHANGED plan
       ELSE /\ plan' = WrapperPlan(specs, cfg)
            /\ pc' = "w_shell"
            /\ UNCHANGED <<err, resp>>
    /\ UNCHANGED <<const, comps, base, lid, extras, todo, klog, diag, result, files>>

\* wrapper.py 117-123: the outer wire is extruded, the cavity wire is
\* extruded and lifted by the floor, then subtracted.  A wire that cannot be
\* built ends the run before the kernel is called.
W_Shell ==
    /\ pc = "w_shell"
    /\ LET outer_wire == _shapely_to_cq_wire(OuterPoly(specs, cfg))
           cavity_wire == _shapely_to_cq_wire(CavityPoly(specs, cfg))
       IN  IF ~outer_wire.ok \/ ~cavity_wire.ok
           THEN /\ Raise(IF ~outer_wire.ok THEN outer_wire.err ELSE cavity_wire.err)
                /\ UNCHANGED <<base, lid, extras, todo, klog, result, files>>
           ELSE Mandatory(<< K("base", "shell", "extrude"), K("base", "shell", "extrude"),
                             K("base", "shell", "cut") >>,
                          "w_standoffs",
                          /\ base' = << [feat |-> "outer", fp |-> OuterPoly(specs, cfg),
                                         h |-> plan.outer.z],
                                        [feat |-> "cavity", fp |-> CavityPoly(specs, cfg),
                                         h |-> plan.inner.z, z |-> plan.floor] >>
                          /\ UNCHANGED <<lid, extras, todo, result, files>>)
    /\ UNCHANGED <<const, comps, plan, diag>>

\* wrapper.py 126-150: the standoffs; no kernel call here is guarded.
W_Standoffs ==
    /\ pc = "w_standoffs"
    /\ LET feats == IF cfg.pcb_standoffs_enabled THEN WrapperStandoffs(specs) ELSE <<>>
           ops == [i \in 1..Len(feats) |->
                     K("base", "standoffs", IF i % 2 = 1 THEN "union" ELSE "cut")]
       IN  Mandatory(ops, "cutouts",
                     /\ base' = base \o feats
                     /\ todo' = cfg.cutouts
                     /\ UNCHANGED <<lid, extras, result, files>>)
    /\ UNCHANGED <<const, comps, plan, diag>>

(***************************************************************************)
(* Calls explored.  Each family varies the inputs one group of steps reads *)
(* and holds the others at their defaults.                                 *)
(***************************************************************************)
\* The two components of tests/test_bbox_generator.py, then a component
\* lifted off the floor, a PCB on standoffs and a component turned about X.
ESP32 == CompSpec(28000, 55000, 12000, 0, 0, 0)
OLED == CompSpec(27000, 27000, 4000, 0, -14000, 0)
Lifted == CompSpec(20000, 30000, 6000, 10000, 4000, 2000)
Board == [CompSpec(40000, 30000, 2000, 0, 0, 0) EXCEPT
            !.is_pcb = TRUE, !.hasGz = TRUE, !.ground_z = 5000]
Turned == [CompSpec(10000, 20000, 30000, -6000, 8000, 0) EXCEPT !.qx = 1]
Apart == CompSpec(10000, 10000, 8000, 60000, 60000, 0)
CompChoices == {ESP32, OLED, Lifted, Board, Turned, Apart}

\* The configuration of tests/test_bbox_generator.py.
TestConfig ==
    [DefaultConfig EXCEPT !.padding_x = 4000, !.padding_y = 4000, !.padding_z = 5000,
                          !.lid_thickness = 2000]

Call(m, sp, c, rq, k, fs) ==
    [mode |-> m, specs |-> sp, cfg |-> c, req |-> rq, kernel |-> k, files |-> fs]

WithPart(config, part_name, part) ==
    [config EXCEPT !.parts = [config.parts EXCEPT ![part_name] = part]]

\* Component lists against the sizing inputs.
SizingConfigs ==
    { TestConfig, DefaultConfig,
      [DefaultConfig EXCEPT !.wall_thickness = 3000, !.floor_thickness = 1600],
      WithPart(DefaultConfig, "base", [DefaultPart EXCEPT !.style = "minimal"]),
      WithPart([DefaultConfig EXCEPT !.wall_thickness = 3000], "base",
               [DefaultPart EXCEPT !.wall_thickness = 0, !.style = ""]) }

SizingCalls ==
    { Call(m, sp, c, DefaultRequest, {}, {}) :
        m \in {"manual", "enclosure"},
        sp \in SeqsUpTo(CompChoices, MaxComponents),
        c \in SizingConfigs }
    \cup { Call("wrapper", sp, TestConfig, DefaultRequest, {}, {}) :
             sp \in SeqsUpTo(CompChoices, MaxComponents) }

\* Lid fastening against lid style, hole style (global and of the lid part),
\* lid thickness and enclosure style.
LidThicknesses == {400, 1000, 2000, 2500, 3000}
HoleStyles == {"countersunk", "through", "closed"}

LidConfigs ==
    { WithPart(WithPart([TestConfig EXCEPT !.lid_style = "screws", !.lid_hole_style = gh,
                                           !.lid_thickness = lt],
                        "lid", [DefaultPart EXCEPT !.lid_hole_style = ph]),
               "base", [DefaultPart EXCEPT !.style = st]) :
        gh \in {"countersunk", "closed"}, ph \in HoleStyles \cup {""},
        lt \in LidThicknesses, st \in {"classic", "minimal"} }
    \cup { WithPart([TestConfig EXCEPT !.lid_style = ls, !.lid_thickness = lt],
                    "base", [DefaultPart EXCEPT !.style = st]) :
             ls \in {"snap", "none"}, lt \in {1000, 2500}, st \in {"classic", "minimal"} }

LidCalls ==
    { Call(m, << ESP32, OLED >>, c, DefaultRequest, {}, {}) :
        m \in {"manual", "enclosure", "wrapper"}, c \in LidConfigs }

\* Cutout lists, with a kernel that may refuse any cut.
ConnectorChoices ==
    { Connector("usb_c", "front", 0, 0), Connector("jack_3_5", "top", 2000, -2000),
      [Connector("custom", "left", 0, 0) EXCEPT !.custom_width = 12000,
                                                !.custom_height = 5000] }
CustomChoices ==
    { Custom("rectangle", "back", 10000, 6000, 0),
      Custom("circle", "right", 8000, 8000, 500),
      Custom("hexagon", "top", 6000, 6000, 5000),
      Custom("triangle", "bottom", 6000, 6000, -1000) }

CutoutLists ==
    { <<cs, <<>>>> : cs \in SeqsUpTo(ConnectorChoices, MaxCutouts) }
    \cup { <<<<>>, us>> : us \in SeqsUpTo(CustomChoices, MaxCutouts) }
    \cup { << <<c>>, <<u>> >> : c \in ConnectorChoices, u \in CustomChoices }

CutoutCalls ==
    { Call(m, << ESP32 >>, [TestConfig EXCEPT !.cutouts = l[1], !.custom_cutouts = l[2]],
           DefaultRequest, k, {}) :
        m \in {"manual", "enclosure", "wrapper"}, l \in CutoutLists,
        k \in {{}, {"cutouts", "custom"}} }

Stages ==
    {"shell", "edges", "bosses", "standoffs", "cutouts", "custom", "style",
     "export", "plate", "fasten", "plates"}

\* Every part and style modifier, with a kernel that may refuse at one
\* stage, and with .3mf files left in the output directory by an earlier run.
FullConfigs ==
    { WithPart(WithPart(WithPart(
          [TestConfig EXCEPT !.lid_style = ls,
                             !.cutouts = << Connector("usb_c", "front", 0, 0) >>,
                             !.custom_cutouts = << Custom("circle", "right", 8000, 8000, 0) >>],
          "base", [DefaultPart EXCEPT !.style = st]),
          "tray", [DefaultPart EXCEPT !.enabled = TRUE, !.tray_z = 4000]),
          "bracket", [DefaultPart EXCEPT !.enabled = TRUE]) :
        ls \in {"screws", "snap"}, st \in {"classic", "vented", "ribbed", "rounded"} }

FullCalls ==
    { Call(m, << Board, ESP32 >>, c, DefaultRequest, k, {}) :
        m \in {"manual", "enclosure", "wrapper"}, c \in FullConfigs,
        k \in {{st} : st \in Stages} }
    \cup { Call(m, << Board, ESP32 >>, c, DefaultRequest, k, {Mf3("base"), Mf3("lid")}) :
             m \in {"manual", "enclosure", "wrapper"}, c \in FullConfigs,
             k \in {{}, {"export"}} }

\* Requests to POST /generate: components with z and ground_z, cutouts whose
\* connector type is any string, hole styles and wall thickness.
ApiComponent(w, d, h, x, y, z, gz, pcb) ==
    [width |-> w, depth |-> d, height |-> h, x |-> x, y |-> y, z |-> z,
     ground_z |-> gz, is_pcb |-> pcb, pcb_screw_diameter |-> 3000,
     standoff_positions |-> <<>>]

ApiComponents ==
    { ApiComponent(28000, 55000, 12000, 0, 0, 0, 0, FALSE),
      ApiComponent(27000, 27000, 4000, 0, -14000, 3000, 0, FALSE),
      ApiComponent(40000, 30000, 2000, 0, 0, 0, 5000, TRUE) }

ApiCutoutLists ==
    SeqsUpTo({ Connector("usb_c", "front", 0, 0), Connector("custom", "back", 0, 0),
               Connector("bogus", "left", 0, 0) }, MaxCutouts)

ApiRequest(cs, cl, gh, es, bs) ==
    [DefaultRequest EXCEPT !.components = cs, !.cutouts = cl,
                           !.lid_hole_style = gh, !.enclosure_style = es,
                           !.parts = [DefaultRequest.parts EXCEPT
                                        !.base = [DefaultPartSchema EXCEPT !.style = bs]]]

ApiCalls ==
    { Call("api", <<>>, DefaultConfig, ApiRequest(cs, <<>>, "countersunk", "classic", "classic"),
           k, {}) :
        cs \in SeqsUpTo(ApiComponents, MaxComponents) \ {<<>>}, k \in {{}, {"shell"}} }
    \cup { Call("api", <<>>, DefaultConfig,
                ApiRequest(<< ApiComponent(28000, 55000, 12000, 0, 0, 0, 0, FALSE) >>,
                           cl, gh, es, bs), {}, {}) :
             cl \in ApiCutoutLists, gh \in {"countersunk", "closed"},
             es \in {"classic", "minimal"}, bs \in {"classic", ""} }

\* Every footprint shape.
FootprintCalls ==
    { Call(m, << ESP32 >>, [TestConfig EXCEPT !.footprint = [DefaultFootprint EXCEPT !.shape = sh]],
           DefaultRequest, {}, {}) :
        m \in {"manual", "enclosure"},
        sh \in {"rectangle", "l_shape", "t_shape", "u_shape", "plus", "hexagon", "octagon",
                "star"} }

\* The stepped footprints with every corner or side, their notch, tab or
\* arm sized automatically, explicitly within the outline, and explicitly
\* beyond it (FootprintConfig takes any float).
FootprintSizes == { <<0, 0>>, <<10000, 8000>>, <<50000, 8000>> }

FootprintChoices ==
    { [DefaultFootprint EXCEPT !.shape = "l_shape", !.notch_corner = s,
                               !.notch_w = p[1], !.notch_d = p[2]] :
        s \in {"top_right", "top_left", "bottom_right", "bottom_left"}, p \in FootprintSizes }
    \cup { [DefaultFootprint EXCEPT !.shape = "t_shape", !.tab_side = s,
                                    !.tab_w = p[1], !.tab_d = p[2]] :
             s \in {"top", "bottom", "right", "left"}, p \in FootprintSizes }
    \cup { [DefaultFootprint EXCEPT !.shape = "u_shape", !.u_open_side = s,
                                    !.u_notch_w = p[1], !.u_notch_d = p[2]] :
             s \in {"top", "bottom", "right", "left"}, p \in FootprintSizes }
    \cup { [DefaultFootprint EXCEPT !.shape = "plus", !.arm_fraction = af] :
             af \in {40, 60, 150} }

FootprintParamCalls ==
    { Call(m, << ESP32 >>, [TestConfig EXCEPT !.footprint = fp], DefaultRequest, {}, {}) :
        m \in {"manual", "enclosure"}, fp \in FootprintChoices }

\* The global style and wall against the base part's style, wall and edge
\* treatment, in direct calls and in requests.
StyleNames == {"classic", "vented", "ribbed", "rounded", "minimal"}

StyleConfigs ==
    { WithPart([TestConfig EXCEPT !.enclosure_style = s, !.wall_thickness = 3000],
               "base", [DefaultPart EXCEPT !.style = bs, !.edge_style = es]) :
        s \in StyleNames, bs \in {"classic", "", "minimal"},
        es \in {"fillet", "chamfer", "none"} }

StyleCalls ==
    { Call(m, << ESP32 >>, c, DefaultRequest, {}, {}) :
        m \in {"manual", "enclosure"}, c \in StyleConfigs }
    \cup { Call("api", <<>>, DefaultConfig,
                 [DefaultRequest EXCEPT
                    !.components = << ApiComponent(28000, 55000, 12000, 0, 0, 0, 0, FALSE) >>,
                    !.enclosure_style = s, !.wall_thickness = w],
                 {}, {}) :
              s \in StyleNames, w \in {2500, 3000} }

\* PCBs with another screw diameter and with standoff positions of their own.
SmallBoard == [Board EXCEPT !.pcb_screw_diameter = 2000]
PinnedBoard == [Board EXCEPT !.standoff_positions = << <<5000, 5000>>, <<-5000, -5000>> >>]

StandoffCalls ==
    { Call(m, sp, TestConfig, DefaultRequest, {}, {}) :
        m \in {"manual", "enclosure", "wrapper"},
        sp \in { << SmallBoard >>, << PinnedBoard >>, << SmallBoard, Board >> } }

\* A parts dict that names only some of the parts, with the tray and the
\* bracket enabled, disabled or absent.
PartsChoices ==
    { [n \in D |-> IF n \in {"tray", "bracket"}
                   THEN [DefaultPart EXCEPT !.enabled = (n \in E)]
                   ELSE DefaultPart] :
        D \in { {"base", "lid"}, {"base", "lid", "tray"}, PartNames },
        E \in SUBSET {"tray", "bracket"} }

PartsCalls ==
    { Call(m, << ESP32 >>, [TestConfig EXCEPT !.parts = ps, !.lid_style = ls],
           DefaultRequest, {}, {}) :
        m \in {"manual", "enclosure"}, ps \in PartsChoices, ls \in {"screws", "none"} }

\* The two components and the configuration of test_wrapper, in both orders.
PcbMain == [CompSpec(60000, 40000, 15000, 0, 0, 0) EXCEPT !.hasGz = TRUE]
PcbSide == [CompSpec(30000, 20000, 10000, 45000, 30000, 0) EXCEPT !.hasGz = TRUE]

WrapperTestCalls ==
    { Call("wrapper", sp, DefaultConfig, DefaultRequest, {}, {}) :
        sp \in { << PcbMain, PcbSide >>, << PcbSide, PcbMain >> } }

\* One connector and one custom cutout on each face in turn, both off the
\* centre of the face, around a component that is off the origin.
OffsetCalls ==
    { Call(m, << Lifted >>,
           [TestConfig EXCEPT
              !.cutouts = << Connector("usb_c", face, 3000, -2000) >>,
              !.custom_cutouts = << [Custom("rectangle", face, 6000, 4000, 0) EXCEPT
                                       !.offset_x = -4000, !.offset_y = 1000] >>],
           DefaultRequest, {}, {}) :
        m \in {"manual", "enclosure", "wrapper"}, face \in WallFaces }

Calls ==
    WrapperTestCalls \cup SizingCalls \cup LidCalls \cup CutoutCalls \cup FullCalls \cup ApiCalls
        \cup FootprintCalls \cup StyleCalls \cup StandoffCalls \cup PartsCalls
        \cup OffsetCalls \cup FootprintParamCalls

(***************************************************************************)
(* The state machine: one call, from its arguments to its result, and its *)
(* repetition with the same arguments.                                     *)
(***************************************************************************)
Init ==
    /\ pc = "idle"
    /\ mode = ""
    /\ req = DefaultRequest
    /\ specs = <<>>
    /\ cfg = DefaultConfig
    /\ comps = <<>>
    /\ plan = NoPlan
    /\ base = <<>>
    /\ lid = <<>>
    /\ extras = [tray |-> <<>>, bracket |-> <<>>]
    /\ todo = <<>>
    /\ klog = <<>>
    /\ diag = <<>>
    /\ result = {}
    /\ err = ""
    /\ files = {}
    /\ resp = NoResponse
    /\ kernel = {}
    /\ prev = NoOutcome

\* A caller invokes one of the entry points, on an output directory that may
\* hold files of an earlier run.
Start ==
    /\ pc = "idle"
    /\ \E c \in Calls :
          /\ mode' = c.mode
          /\ specs' = c.specs
          /\ cfg' = c.cfg
          /\ req' = c.req
          /\ kernel' = c.kernel
          /\ files' = c.files
          /\ pc' = CASE c.mode = "api" -> "api_build"
                     [] c.mode = "manual" -> "convert"
                     [] c.mode = "enclosure" -> "resolve"
                     [] OTHER -> "w_plan"
    /\ UNCHANGED <<comps, plan, base, lid, extras, todo, klog, diag, result, err, resp,
                   prev>>

\* The caller repeats a finished call with the same arguments.  The locals
\* of the generator are fresh; the output directory keeps the files of the
\* first call, except under the route, which makes a job directory under a
\* new uuid; the config object keeps the components assigned to it.
Again ==
    /\ pc = "done" /\ prev = NoOutcome
    /\ prev' = Outcome
    /\ pc' = CASE mode = "api" -> "api_build"
              [] mode = "manual" -> "convert"
              [] mode = "enclosure" -> "resolve"
              [] OTHER -> "w_plan"
    /\ files' = IF mode = "api" THEN {} ELSE files
    /\ plan' = NoPlan
    /\ base' = <<>>
    /\ lid' = <<>>
    /\ extras' = [tray |-> <<>>, bracket |-> <<>>]
    /\ todo' = <<>>
    /\ klog' = <<>>
    /\ diag' = <<>>
    /\ result' = {}
    /\ resp' = NoResponse
    /\ UNCHANGED <<mode, req, specs, cfg, kernel, comps, err>>

Next ==
    \/ Start
    \/ ApiBuild
    \/ Convert
    \/ Resolve
    \/ Load
    \/ Dims
    \/ Shell
    \/ Edges
    \/ Bosses
    \/ Standoff
    \/ StandoffsDone
    \/ ConnectorCutout
    \/ CutoutsDone
    \/ CustomCutout
    \/ CustomDone
    \/ Style
    \/ Export
    \/ LidPlate
    \/ LidEdges
    \/ LidFasten
    \/ Tray
    \/ Bracket
    \/ Finish
    \/ ApiRespond
    \/ W_Plan
    \/ W_Shell
    \/ W_Standoffs
    \/ Again

Spec == Init /\ [][Next]_vars

(***************************************************************************)
(* Properties.                                                             *)
(***************************************************************************)
\* The sizing step of a fixed-shape run is behind it.
Sized ==
    /\ Fixed
    /\ pc \notin {"idle", "api_build", "convert", "resolve", "load", "dims"}
    /\ err \notin {"EmptyInput", "InvalidConnector"}

\* The shell of a fixed-shape run has been cut.
Shelled == Sized /\ Len(base) >= 2

\* C1: in fixed-shape mode the outer width and depth are the inner ones plus
\* twice the wall the shell is built with, the outer height is the inner
\* height plus the floor thickness, and the shell is extruded with exactly
\* these dimensions.
C1_OuterFromInner ==
    Sized =>
        /\ plan.outer.x = plan.inner.x + plan.wall + plan.wall
        /\ plan.outer.y = plan.inner.y + plan.wall + plan.wall
        /\ plan.outer.z = plan.inner.z + cfg.floor_thickness
        /\ plan.wall = (IF _get_part(cfg, "base").style = "minimal"
                           \/ (_get_part(cfg, "base").style = ""
                               /\ cfg.enclosure_style = "minimal")
                        THEN 1800
                        ELSE IF _get_part(cfg, "base").wall_thickness # 0
                        THEN _get_part(cfg, "base").wall_thickness
                        ELSE cfg.wall_thickness)
        /\ Shelled =>
              /\ base[1].fp = _build_footprint(plan.inner.x + 2 * plan.wall,
                                              plan.inner.y + 2 * plan.wall, cfg.footprint)
              /\ base[2].fp = _build_footprint(plan.inner.x, plan.inner.y, cfg.footprint)
              /\ base[1].h = base[2].h + base[2].z
              /\ base[2].h = plan.inner.z

\* A finished run of generate_enclosure whose base part leaves the wall
\* unset, so that the shell is built with the global 3 mm wall.
C1_Witness ==
    /\ Shelled /\ pc = "done" /\ mode = "enclosure"
    /\ plan.wall = 3000 /\ plan.outer.x = plan.inner.x + 6000
    /\ _get_part(cfg, "base").wall_thickness = 0

\* C2: the combined box is the component-wise minimum and maximum of the
\* component boxes, so it contains each of them, and on every axis the cavity
\* is at least the largest component extent plus twice the padding.
C2_CombinedBoxAndCavity ==
    Sized =>
        LET C == Range(comps)
        IN  /\ C # {}
            /\ \A c \in C :
                  /\ plan.bbox_min.x <= c.bbox_min.x /\ c.bbox_max.x <= plan.bbox_max.x
                  /\ plan.bbox_min.y <= c.bbox_min.y /\ c.bbox_max.y <= plan.bbox_max.y
                  /\ plan.bbox_min.z <= c.bbox_min.z /\ c.bbox_max.z <= plan.bbox_max.z
                  /\ plan.inner.x >= (c.bbox_max.x - c.bbox_min.x) + 2 * cfg.padding_x
                  /\ plan.inner.y >= (c.bbox_max.y - c.bbox_min.y) + 2 * cfg.padding_y
                  /\ plan.inner.z >= (c.bbox_max.z - c.bbox_min.z) + 2 * cfg.padding_z
            /\ \E c \in C : plan.bbox_min.x = c.bbox_min.x
            /\ \E c \in C : plan.bbox_min.y = c.bbox_min.y
            /\ \E c \in C : plan.bbox_min.z = c.bbox_min.z
            /\ \E c \in C : plan.bbox_max.x = c.bbox_max.x
            /\ \E c \in C : plan.bbox_max.y = c.bbox_max.y
            /\ \E c \in C : plan.bbox_max.z = c.bbox_max.z

\* Two components neither of which contains the other: the combined box is
\* strictly larger than each.
C2_Witness ==
    /\ Sized /\ pc = "done" /\ Len(comps) = 2
    /\ \A i \in 1..2 : plan.bbox_max.y - plan.bbox_min.y
                          > comps[i].bbox_max.y - comps[i].bbox_min.y
    /\ plan.inner.y > plan.bbox_max.y - plan.bbox_min.y

\* The call of tests/test_bbox_generator.py.
Scenario == mode = "manual" /\ specs = << ESP32, OLED >> /\ cfg = TestConfig /\ kernel = {}

Near(a, b) == a - b \in -500..500

\* C3 as stated: the scenario yields inner dimensions about (36, 67, 21),
\* outer dimensions about (41, 72, 23.5) and a result with base and lid.
C3_ScenarioAsStated ==
    (Scenario /\ pc = "done") =>
        /\ Near(plan.inner.x, 36000) /\ Near(plan.inner.y, 67000) /\ Near(plan.inner.z, 21000)
        /\ Near(plan.outer.x, 41000) /\ Near(plan.outer.y, 72000) /\ Near(plan.outer.z, 23500)
        /\ {"base", "lid"} \subseteq result

\* C3: the scenario yields inner dimensions (36, 63, 22) and outer dimensions
\* (41, 68, 24.5), does not fail, and returns a result with base and lid.
C3_ScenarioDimensions ==
    Scenario =>
        /\ pc # "failed"
        /\ Sized => /\ plan.inner = Vec(36000, 63000, 22000)
                    /\ plan.outer = Vec(41000, 68000, 24500)
        /\ pc = "done" => {"base", "lid"} \subseteq result

C3_Witness ==
    /\ Scenario /\ pc = "done" /\ "lid" \in result
    /\ plan.inner.y = 63000 /\ Len(lid) > 1

\* C4: on an empty component list each of the three generators stops with
\* EmptyInput before any kernel operation is issued, and returns no part.
C4_EmptyInputFailsFirst ==
    (mode \in {"manual", "enclosure", "wrapper"} /\ specs = <<>>) =>
        /\ klog = <<>>
        /\ result = {}
        /\ base = <<>> /\ lid = <<>>
        /\ pc \in {"convert", "resolve", "load", "dims", "w_plan", "failed"}
        /\ pc = "failed" => err = "EmptyInput"

C4_Witness ==
    /\ mode = "enclosure" /\ specs = <<>> /\ pc = "failed" /\ err = "EmptyInput"
    /\ klog = <<>>

\* The cutouts of the configuration, and what became of them.
IsConnectorFeat(f) == f.feat = "cutout" /\ f.kind = "connector"
IsCustomFeat(f) == f.feat = "cutout" /\ f.kind = "custom"
Of(feats) == [i \in 1..Len(feats) |-> feats[i].of]
At(entries) == [i \in 1..Len(entries) |-> entries[i].at]
AppliedConnectors == Of(SelectSeq(base, IsConnectorFeat))
AppliedCustoms == Of(SelectSeq(base, IsCustomFeat))
SkippedConnectors == At(SelectSeq(diag, LAMBDA d : d.warn = "cutout skipped"))
SkippedCustoms == At(SelectSeq(diag, LAMBDA d : d.warn = "Could not apply custom cutout"))
InCatalog(c) == c.connector_type \in ConnectorTypes \ {"custom"}

RECURSIVE IsSubseq(_, _)
IsSubseq(a, b) ==
    IF a = <<>> THEN TRUE
    ELSE IF b = <<>> THEN FALSE
    ELSE IF Head(a) = Head(b) THEN IsSubseq(Tail(a), Tail(b))
    ELSE IsSubseq(a, Tail(b))

\* c is a and b interleaved, each keeping its order.
RECURSIVE IsMerge(_, _, _)
IsMerge(a, b, c) ==
    IF c = <<>> THEN a = <<>> /\ b = <<>>
    ELSE \/ a # <<>> /\ Head(a) = Head(c) /\ IsMerge(Tail(a), b, Tail(c))
         \/ b # <<>> /\ Head(b) = Head(c) /\ IsMerge(a, Tail(b), Tail(c))

\* Inside the engine: the cutouts applied are those of the lists, in list
\* order, connector cutouts before custom ones; none of them is a catalog
\* miss; a finished run has applied or skipped each cutout, skipped every
\* catalog miss, each list
\* being its applied and its skipped cutouts interleaved in order, and holds
\* base; with a sound kernel only catalog misses are
\* skipped; and when only cuts can fail the run does not fail.
CutoutsTolerated ==
    /\ IsSubseq(AppliedConnectors, cfg.cutouts)
    /\ IsSubseq(AppliedCustoms, cfg.custom_cutouts)
    /\ \A i, j \in 1..Len(base) :
          (IsCustomFeat(base[i]) /\ IsConnectorFeat(base[j])) => j < i
    /\ \A c \in Range(AppliedConnectors) : InCatalog(c)
    /\ pc = "done" =>
          /\ "base" \in result
          /\ Len(AppliedConnectors) + Len(SkippedConnectors) = Len(cfg.cutouts)
          /\ Len(AppliedCustoms) + Len(SkippedCustoms) = Len(cfg.custom_cutouts)
          /\ IsMerge(AppliedConnectors, SkippedConnectors, cfg.cutouts)
          /\ IsMerge(AppliedCustoms, SkippedCustoms, cfg.custom_cutouts)
          /\ \A c \in Range(cfg.cutouts) : ~InCatalog(c) => c \in Range(SkippedConnectors)
          /\ kernel = {} => \A c \in Range(SkippedConnectors) : ~InCatalog(c)
          /\ kernel = {} => SkippedCustoms = <<>>
    /\ (kernel \subseteq {"cutouts", "custom"} /\ mode # "api" /\ specs # <<>>)
          => pc # "failed"

HasUnknownType == \E c \in Range(req.cutouts) : c.connector_type \notin ConnectorTypes

\* C5 as stated: failing cutouts are skipped and the others applied in order
\* with base in the result, and a request carrying a cutout of unknown
\* connector type is answered with success and base among its files.
C5_AsStated ==
    /\ CutoutsTolerated
    /\ (mode = "api" /\ HasUnknownType /\ pc \in {"done", "failed"}) =>
          (pc = "done" /\ resp.status = 200 /\ "base" \in resp.files)

\* C5: inside the engine failing cutouts (type custom, which the catalog
\* lacks, or a refused cut) are skipped and the others applied in order with
\* base in the result; a request carrying a connector type outside the enum
\* is rejected with HTTP 400 before the engine runs; a request whose types
\* are all of the enum and whose kernel is sound succeeds with base.
C5_FailingCutoutsSkipped ==
    /\ CutoutsTolerated
    /\ (mode = "api" /\ HasUnknownType /\ pc \notin {"idle", "api_build"}) =>
          /\ pc = "failed" /\ resp.status = 400
          /\ klog = <<>> /\ result = {} /\ base = <<>>
    /\ (mode = "api" /\ ~HasUnknownType /\ kernel = {}) =>
          /\ pc # "failed"
          /\ pc = "done" => (resp.status = 200 /\ "base" \in resp.files)

\* A finished run that skipped the first of two connector cutouts, a catalog
\* miss, and applied the second.
C5_Witness ==
    /\ pc = "done" /\ "base" \in result
    /\ Len(cfg.cutouts) = 2 /\ Len(SkippedConnectors) = 1 /\ Len(AppliedConnectors) = 1
    /\ ~InCatalog(cfg.cutouts[1]) /\ AppliedConnectors[1] = cfg.cutouts[2]

\* C6 as stated: the depth of every cut volume, connector or custom, is at
\* least the effective wall thickness.
C6_DepthAtLeastWall ==
    \A i \in 1..Len(base) :
        base[i].feat = "cutout" => base[i].cut_d >= plan.wall

\* C6: the depth of a connector cut and of a custom cut without explicit
\* depth (depth <= 0) is the wall thickness plus 2 mm; the depth of a custom
\* cut with an explicit positive depth is that depth, whatever the wall.
C6_DepthRule ==
    \A i \in 1..Len(base) :
        LET f == base[i]
        IN  f.feat = "cutout" =>
               IF f.kind = "connector" \/ f.of.depth <= 0
               THEN f.cut_d = plan.wall + 2000 /\ f.cut_d >= plan.wall
               ELSE f.cut_d = f.of.depth

\* A base that carries a custom cut with depth 0 and one with depth 0.5 mm.
C6_Witness ==
    /\ pc = "done"
    /\ \E i, j \in 1..Len(base) :
          /\ IsCustomFeat(base[i]) /\ base[i].of.depth = 0
          /\ IsCustomFeat(base[j]) /\ base[j].of.depth = 500 /\ base[j].cut_d < plan.wall

\* Bosses of the base and holes of the lid.
Feats(solid, kind) == SelectSeq(solid, LAMBDA f : f.feat = kind)
XYs(feats) == {<<feats[i].x, feats[i].y>> : i \in 1..Len(feats)}
LidHoleFeats == SelectSeq(lid, LAMBDA f : f.feat \in {"through", "pocket", "shaft"})
CornersAbout(cx, cy, dx, dy) == {<<cx + sx * dx, cy + sy * dy>> : sx, sy \in {1, -1}}

\* The four positions +-(inner_w/2 - inset), +-(inner_d/2 - inset) with
\* inset = boss radius + wall, about the origin.
ExpectedXY ==
    CornersAbout(0, 0, plan.inner.x \div 2 - (cfg.boss_diameter \div 2 + plan.wall),
                       plan.inner.y \div 2 - (cfg.boss_diameter \div 2 + plan.wall))

Symmetric(P, cx, cy) ==
    \A p \in P : <<2 * cx - p[1], p[2]>> \in P /\ <<p[1], 2 * cy - p[2]>> \in P

\* C7 as stated: whenever the lid style is screws the base carries four
\* bosses and the lid four holes at the same four expected positions.
C7_AsStated ==
    (pc = "done" /\ cfg.lid_style = "screws") =>
        /\ Len(Feats(base, "boss")) = 4
        /\ XYs(Feats(base, "boss")) = ExpectedXY
        /\ XYs(LidHoleFeats) = ExpectedXY
        /\ Cardinality(ExpectedXY) = 4

\* C7: in fixed-shape mode with lid style screws, unless the style is
\* minimal the base carries exactly four bosses, each with its screw hole, at
\* the four expected positions, and none when it is minimal; unless the
\* effective lid hole style is closed the lid is cut at exactly these four
\* positions, and nowhere when it is closed.  The wrapper adds no boss and
\* cuts the lid at four positions symmetric about the centre of its outer
\* bounds.  Without lid style screws there is neither boss nor lid hole.
C7_BossHolePairs ==
    pc = "done" =>
        /\ (Fixed /\ cfg.lid_style = "screws") =>
              /\ Cardinality(ExpectedXY) = 4
              /\ Symmetric(ExpectedXY, 0, 0)
              /\ IF plan.style = "minimal"
                 THEN Feats(base, "boss") = <<>> /\ Feats(base, "boss_hole") = <<>>
                 ELSE /\ Len(Feats(base, "boss")) = 4
                      /\ Len(Feats(base, "boss_hole")) = 4
                      /\ XYs(Feats(base, "boss")) = ExpectedXY
                      /\ XYs(Feats(base, "boss_hole")) = ExpectedXY
              /\ IF EffectiveLidHoleStyle(cfg) = "closed"
                 THEN LidHoleFeats = <<>>
                 ELSE /\ XYs(LidHoleFeats) = ExpectedXY
                      /\ Len(LidHoleFeats) \in {4, 8}
        /\ (mode = "wrapper" /\ cfg.lid_style = "screws") =>
              /\ Feats(base, "boss") = <<>>
              /\ Len(LidHoleFeats) = 4
              /\ XYs(LidHoleFeats) =
                    CornersAbout((plan.bounds[1] + plan.bounds[3]) \div 2,
                                 (plan.bounds[2] + plan.bounds[4]) \div 2,
                                 plan.inner.x \div 2 - (cfg.boss_diameter \div 2 + plan.wall),
                                 plan.inner.y \div 2 - (cfg.boss_diameter \div 2 + plan.wall))
        /\ cfg.lid_style # "screws" =>
              Feats(base, "boss") = <<>> /\ LidHoleFeats = <<>>

\* A finished fixed-shape run with four bosses and the lid holes above them.
C7_Witness ==
    /\ pc = "done" /\ Fixed /\ cfg.lid_style = "screws"
    /\ Len(Feats(base, "boss")) = 4
    /\ Cardinality(XYs(Feats(base, "boss"))) = 4
    /\ XYs(LidHoleFeats) = XYs(Feats(base, "boss"))

\* C8: about every countersunk position the head pocket and the shaft leave
\* at least 0.3 mm of the lid between them along Z.
C8_CountersunkKeepsFloor ==
    \A i, j \in 1..Len(lid) :
        (lid[i].feat = "pocket" /\ lid[j].feat = "shaft"
            /\ lid[i].x = lid[j].x /\ lid[i].y = lid[j].y)
        => lid[i].zlo - lid[j].zhi >= 300

\* The head pocket cannot be cut: min(2.0, lid_t - 0.5) is not positive.
TooThinForPocket == plan.lid_t <= 500

\* C9: with hole style countersunk and a lid too thin for the head pocket,
\* the lid is cut by one through-hole of the screw radius at each of the four
\* positions and by no pocket or shaft.
C9_ThinLidFallsBack ==
    (pc = "done" /\ Fixed /\ cfg.lid_style = "screws"
        /\ EffectiveLidHoleStyle(cfg) = "countersunk" /\ TooThinForPocket)
    => /\ Len(LidHoleFeats) = 4
       /\ \A i \in 1..4 : /\ LidHoleFeats[i].feat = "through"
                          /\ LidHoleFeats[i].r = cfg.screw_diameter \div 2

\* C10: with lid style screws and lid hole style closed (globally, the lid
\* part saying the same or nothing) no path cuts a hole into the lid.
C10_ClosedLidHasNoHoles ==
    (pc \in {"export_lid", "tray", "bracket", "export_tray", "export_bracket", "finish",
             "respond", "done"}
        /\ cfg.lid_style = "screws" /\ cfg.lid_hole_style = "closed"
        /\ _get_part(cfg, "lid").lid_hole_style \in {"", "closed"})
    => LidHoleFeats = <<>>

\* The style, wall and fillet of a fixed-shape run have been resolved.
Resolved ==
    /\ Fixed
    /\ pc \notin {"idle", "api_build", "convert", "resolve"}
    /\ err # "InvalidConnector"

\* The style step of a fixed-shape run is behind it.
Styled ==
    Resolved /\ pc \in {"export_base", "lid", "lid_edges", "lid_fasten", "export_lid", "tray",
                        "export_tray", "bracket", "export_bracket", "finish", "respond",
                        "done"}

\* C11: with the per-part configs at their defaults, the effective style is
\* the global enclosure_style (of the configuration, or of the request), and
\* with a sound kernel the base carries vent slots exactly when that style is
\* vented and ribs exactly when it is ribbed.
C11_GlobalStyleApplies ==
    (Resolved /\ cfg.parts = DefaultParts
        /\ (mode = "api" => req.parts = DefaultRequest.parts))
    => /\ plan.style = cfg.enclosure_style
       /\ mode = "api" => plan.style = req.enclosure_style
       /\ (Styled /\ kernel = {}) =>
             /\ (Feats(base, "slot") # <<>>) = (cfg.enclosure_style = "vented")
             /\ (Feats(base, "rib") # <<>>) = (cfg.enclosure_style = "ribbed")

\* C12: with the per-part configs at their defaults and a style that is not
\* minimal, the shell is built with the global wall_thickness (of the
\* configuration, or of the request).
C12_GlobalWallApplies ==
    (Resolved /\ cfg.parts = DefaultParts /\ plan.style # "minimal"
        /\ (mode = "api" => req.parts = DefaultRequest.parts))
    => /\ plan.wall = cfg.wall_thickness
       /\ mode = "api" => plan.wall = req.wall_thickness
       /\ Shelled =>
             base[1].fp = _build_footprint(plan.inner.x + 2 * cfg.wall_thickness,
                                          plan.inner.y + 2 * cfg.wall_thickness,
                                          cfg.footprint)

\* C13: when the effective style is minimal the shell is built with a wall
\* of 1.8 mm and the base carries neither a fillet nor a chamfer.
C13_MinimalHasNoEdges ==
    (Resolved /\ plan.style = "minimal")
    => /\ plan.wall = 1800
       /\ Shelled =>
             base[1].fp = _build_footprint(plan.inner.x + 3600, plan.inner.y + 3600,
                                          cfg.footprint)
       /\ Feats(base, "fillet") = <<>>
       /\ Feats(base, "chamfer") = <<>>

\* The component dicts of a run of generate_from_manual_bbox have been
\* converted.
Converted ==
    /\ mode \in {"manual", "api"}
    /\ pc \notin {"idle", "api_build", "convert"}
    /\ err # "InvalidConnector"

\* The height at which the caller placed component i: ground_z when it was
\* given (in a request: when it is not zero), else z.
GivenAnchor(i) ==
    IF mode = "api"
    THEN (IF req.components[i].ground_z # 0 THEN req.components[i].ground_z
          ELSE req.components[i].z)
    ELSE (IF specs[i].hasGz THEN specs[i].ground_z ELSE specs[i].z)

\* C14: the box of every component starts at its ground_z when that was
\* given and at its z otherwise, and, unrotated, ends its height above, in
\* direct calls and through the route.
C14_AnchoredAtGivenHeight ==
    Converted =>
        \A i \in 1..Len(comps) :
            /\ comps[i].bbox_min.z = GivenAnchor(i)
            /\ (specs[i].qx = 0 /\ specs[i].qy = 0 /\ specs[i].qz = 0)
                  => comps[i].bbox_max.z = GivenAnchor(i) + specs[i].height

\* The cutout loops of a run are behind it.
CutoutsApplied ==
    pc \in {"style", "export_base", "lid", "lid_edges", "lid_fasten", "export_lid", "tray",
            "export_tray", "bracket", "export_bracket", "finish", "respond", "done"}

\* C15: with a sound kernel every connector cutout of type custom is cut
\* into the base as a rectangle of its custom_width x custom_height.
C15_CustomConnectorIsCut ==
    (CutoutsApplied /\ kernel = {})
    => \A c \in Range(cfg.cutouts) :
          c.connector_type = "custom"
          => \E i \in 1..Len(base) :
                /\ IsConnectorFeat(base[i])
                /\ base[i].of = c
                /\ base[i].profile = [shape |-> "rectangle", w |-> c.custom_width,
                                       h |-> c.custom_height]

\* The PCB components of the call that get standoffs, in order.
Pcbs ==
    SelectSeq(specs, LAMBDA c : c.is_pcb /\ (IF mode = "wrapper" THEN SpecGroundZ(c)
                                             ELSE c.ground_z) > 0)

\* How many standoffs a PCB gets: its own positions in fixed-shape mode when
\* it names some, else four.
StandoffCount(c) ==
    IF mode # "wrapper" /\ c.standoff_positions # <<>> THEN Len(c.standoff_positions)
    ELSE 4

\* The radii of the standoffs of all PCBs when each is num / den times the
\* screw diameter.
StandoffRadii(num, den) ==
    Flatten([i \in 1..Len(Pcbs) |->
                [j \in 1..StandoffCount(Pcbs[i]) |->
                    (Pcbs[i].pcb_screw_diameter * num) \div den]])

BossRadii == [i \in 1..Len(Feats(base, "standoff")) |-> Feats(base, "standoff")[i].r]

\* The standoff step has run with a sound kernel and standoffs enabled.
StandoffsBuilt ==
    /\ CutoutsApplied /\ kernel = {} /\ cfg.pcb_standoffs_enabled
    /\ mode \in {"manual", "enclosure", "wrapper"}

\* C16 as stated: the standoff radius is 2.5 times the PCB screw diameter in
\* bounding-box mode and 1.25 times in wrapper mode.
C16_AsStated ==
    StandoffsBuilt =>
        BossRadii = (IF mode = "wrapper" THEN StandoffRadii(125, 100)
                     ELSE StandoffRadii(250, 100))

\* C16: in both modes every standoff has a radius of 1.25 times the screw
\* diameter of its PCB (in bounding-box mode written as 2.5 * d / 2), and
\* its drill a radius of half the screw diameter.
C16_StandoffRadius ==
    StandoffsBuilt =>
        /\ BossRadii = StandoffRadii(125, 100)
        /\ [i \in 1..Len(Feats(base, "standoff_drill")) |->
               Feats(base, "standoff_drill")[i].r] = StandoffRadii(1, 2)

\* A finished bounding-box run with two PCBs of screw diameters 2 mm and
\* 3 mm: eight standoffs of radii 2.5 mm and 3.75 mm.
C16_Witness ==
    /\ pc = "done" /\ mode = "manual" /\ kernel = {}
    /\ Len(Pcbs) = 2
    /\ BossRadii = << 2500, 2500, 2500, 2500, 3750, 3750, 3750, 3750 >>

\* C17: when the kernel can refuse only standoff operations, no run fails:
\* a refused standoff is skipped, every standoff is either in the base with
\* its drill or skipped, and a finished run holds base.
C17_StandoffFaultSkipped ==
    (kernel = {"standoffs"} /\ mode \in {"manual", "enclosure", "wrapper"} /\ specs # <<>>)
    => /\ pc # "failed"
       /\ Len(Feats(base, "standoff")) = Len(Feats(base, "standoff_drill"))
       /\ pc = "done" =>
             /\ "base" \in result
             /\ Stl("base") \in files
             /\ cfg.pcb_standoffs_enabled =>
                   Len(Feats(base, "standoff"))
                     + Len(SelectSeq(diag, LAMBDA d : d.warn = "PCB standoff skipped"))
                   = Len(StandoffRadii(1, 1))

\* The part of this name has an entry in config.parts that enables it.
EnabledInParts(part_name) ==
    part_name \in DOMAIN cfg.parts /\ cfg.parts[part_name].enabled

\* C18: the result of a finished fixed-shape run holds base; lid exactly
\* when the lid style is not none; tray and bracket exactly when config.parts
\* has an entry for them that is enabled.
C18_PartsProduced ==
    (pc = "done" /\ Fixed)
    => /\ "base" \in result
       /\ ("lid" \in result) = (cfg.lid_style # "none")
       /\ ("tray" \in result) = EnabledInParts("tray")
       /\ ("bracket" \in result) = EnabledInParts("bracket")

\* C19: a call repeated with the same components and configuration, on the
\* output directory the first call left behind, does not fail when the
\* kernel is sound, and whenever it finishes it has the same inner and outer
\* dimensions, the same dimension summary and the same set of parts as the
\* first call.
C19_RepeatedRunSameOutcome ==
    prev # NoOutcome
    => /\ kernel = {} => pc # "failed"
       /\ pc = "done" =>
             /\ result \cap PartNames = prev.parts
             /\ plan.inner = prev.inner /\ plan.outer = prev.outer
             /\ resp.dimensions = prev.dimensions

\* A second manual run finished on the directory that holds the base, lid,
\* tray and bracket of the first.
C19_Witness ==
    /\ pc = "done" /\ mode = "manual" /\ prev # NoOutcome
    /\ prev.parts = PartNames /\ result \cap PartNames = PartNames
    /\ {Stl("base"), Stl("lid"), Stl("tray"), Stl("bracket")} \subseteq files

\* The component footprints of the call, and whether their union falls
\* apart.
Footprints == [i \in 1..Len(specs) |-> _component_footprint(specs[i])]
Disconnected == specs # <<>> /\ IsMultiPolygon(Footprints)

\* C20: a wrapper run whose component footprints fall apart never ends with
\* an error of the wire construction and, with a sound kernel, never fails;
\* its outer and cavity outlines are grown from the convex hull of the
\* footprints, one polygon each, with at least three vertices.
C20_DisconnectedUnionHulled ==
    (mode = "wrapper" /\ Disconnected)
    => /\ err \notin {"AttributeError", "ValueError"}
       /\ kernel = {} => pc # "failed"
       /\ Len(base) >= 2 =>
             \A i \in 1..2 :
                /\ base[i].fp.region = [kind |-> "hull", of |-> Footprints]
                /\ IsSinglePolygon(base[i].fp)
                /\ Cardinality(convex_hull(Corners(Range(Footprints)))) >= 3

\* The finished run of test_wrapper: 60 x 40 at the origin and 30 x 20 at
\* (45, 30) meet in one corner point only; the outline is their hull, with
\* six vertices.
C20_Witness ==
    /\ mode = "wrapper" /\ pc = "done" /\ specs = << PcbMain, PcbSide >>
    /\ Disconnected
    /\ base[1].fp.region.kind = "hull"
    /\ convex_hull(Corners(Range(Footprints)))
         = { <<-30000, -20000>>, <<30000, -20000>>, <<60000, 20000>>, <<60000, 40000>>,
             <<30000, 40000>>, <<-30000, 20000>> }

\* The place of a kernel call in the order of the claim: the stages of the
\* base in turn, then its export, then everything on another part.
StageRank(k) ==
    IF k.part # "base" THEN 9
    ELSE CASE k.stage = "shell" -> 1
           [] k.stage = "edges" -> 2
           [] k.stage = "bosses" -> 3
           [] k.stage = "standoffs" -> 4
           [] k.stage = "cutouts" -> 5
           [] k.stage = "custom" -> 6
           [] k.stage = "style" -> 7
           [] OTHER -> 8

\* The same place for a feature of the base solid.
FeatRank(f) ==
    CASE f.feat = "outer" -> 1
      [] f.feat = "cavity" -> 1
      [] f.feat \in {"fillet", "chamfer"} -> 2
      [] f.feat \in {"boss", "boss_hole"} -> 3
      [] f.feat \in {"standoff", "standoff_drill"} -> 4
      [] f.feat = "cutout" -> (IF f.kind = "connector" THEN 5 ELSE 6)
      [] OTHER -> 7

\* C21: in a fixed-shape run the kernel calls on the base come in the order
\* shell (outer extrusion, then cavity), edge treatment, corner bosses, PCB
\* standoffs, connector cutouts, custom cutouts, style modifier, export of
\* the base, and every call on another part comes after them; the features of
\* the base lie in the same order, with at most one of fillet and chamfer;
\* and a lid, tray or bracket exists only once the base has been exported.
C21_BaseBuiltInOrder ==
    Fixed =>
        /\ \A i \in 1..(Len(klog) - 1) : StageRank(klog[i]) <= StageRank(klog[i + 1])
        /\ \A i \in 1..(Len(base) - 1) : FeatRank(base[i]) <= FeatRank(base[i + 1])
        /\ Len(base) >= 2 => base[1].feat = "outer" /\ base[2].feat = "cavity"
        /\ Len(Feats(base, "fillet")) + Len(Feats(base, "chamfer")) <= 1
        /\ (lid # <<>> \/ extras.tray # <<>> \/ extras.bracket # <<>>
              \/ pc \in {"lid", "lid_edges", "lid_fasten", "export_lid", "tray",
                         "export_tray", "bracket", "export_bracket"})
           => /\ "base" \in result
              /\ Stl("base") \in files
              /\ \E i \in 1..Len(klog) : klog[i] = K("base", "export", "stl")

\* A finished run whose base went through every step: fillet, bosses,
\* standoffs, a connector and a custom cutout, vent slots; then lid, tray and
\* bracket.
C21_Witness ==
    /\ Fixed /\ pc = "done"
    /\ \A kind \in {"fillet", "boss", "standoff", "cutout", "slot"} : Feats(base, kind) # <<>>
    /\ \E i, j \in 1..Len(base) : IsConnectorFeat(base[i]) /\ IsCustomFeat(base[j])
    /\ lid # <<>> /\ extras.tray # <<>> /\ extras.bracket # <<>>
    /\ {"base", "lid", "tray", "bracket"} \subseteq result


\* The centre of the cavity in the frame the base is built in: the origin in
\* fixed-shape mode, the centre of the outer bounds in wrapper mode; in Z the
\* middle of the cavity above the floor.
CavityCentre ==
    [x |-> IF mode = "wrapper" THEN (plan.bounds[1] + plan.bounds[3]) \div 2 ELSE 0,
     y |-> IF mode = "wrapper" THEN (plan.bounds[2] + plan.bounds[4]) \div 2 ELSE 0,
     z |-> cfg.floor_thickness + plan.inner.z \div 2]

\* Where the claim puts the centre of a cut.
ClaimedCutPos(face, ox, oy) ==
    CASE face = "front" ->
            << CavityCentre.x + ox,
               CavityCentre.y + (plan.inner.y \div 2 + plan.wall \div 2),
               CavityCentre.z + oy >>
      [] face = "back" ->
            << CavityCentre.x + ox,
               CavityCentre.y - (plan.inner.y \div 2 + plan.wall \div 2),
               CavityCentre.z + oy >>
      [] face = "left" ->
            << CavityCentre.x - (plan.inner.x \div 2 + plan.wall \div 2),
               CavityCentre.y + ox,
               CavityCentre.z + oy >>
      [] face = "right" ->
            << CavityCentre.x + (plan.inner.x \div 2 + plan.wall \div 2),
               CavityCentre.y + ox,
               CavityCentre.z + oy >>
      [] face = "top" ->
            << CavityCentre.x + ox, CavityCentre.y + oy,
               plan.inner.z + cfg.floor_thickness >>
      [] OTHER ->
            << CavityCentre.x + ox, CavityCentre.y + oy, 0 >>

GivenGroundZ(i) ==
    CASE mode = "wrapper" -> SpecGroundZ(specs[i])
      [] mode = "enclosure" -> specs[i].ground_z
      [] OTHER -> (IF specs[i].hasGz THEN specs[i].ground_z ELSE specs[i].z)

\* Where the claim puts the standoffs of component i, in the frame the base
\* is built in (centred on the cavity in fixed-shape mode, the world frame in
\* wrapper mode): its own offsets moved to the component, else the four
\* corners of its footprint 3 mm inside each edge, no half-extent below 1 mm.
ClaimedStandoffXY(i) ==
    LET c == specs[i]
        cx == c.x - (IF mode = "wrapper" THEN 0 ELSE plan.cavity_center_x)
        cy == c.y - (IF mode = "wrapper" THEN 0 ELSE plan.cavity_center_y)
        w == IF mode = "wrapper" THEN c.width ELSE comps[i].bbox_max.x - comps[i].bbox_min.x
        d == IF mode = "wrapper" THEN c.depth ELSE comps[i].bbox_max.y - comps[i].bbox_min.y
        hw == IF w \div 2 - 3000 >= 1000 THEN w \div 2 - 3000 ELSE 1000
        hd == IF d \div 2 - 3000 >= 1000 THEN d \div 2 - 3000 ELSE 1000
    IN  IF ~cfg.pcb_standoffs_enabled \/ ~c.is_pcb \/ GivenGroundZ(i) <= 0 THEN <<>>
        ELSE IF c.standoff_positions # <<>>
        THEN [j \in 1..Len(c.standoff_positions) |->
                << c.standoff_positions[j][1] + cx, c.standoff_positions[j][2] + cy >>]
        ELSE << <<cx + hw, cy + hd>>, <<cx + hw, cy - hd>>,
                <<cx - hw, cy + hd>>, <<cx - hw, cy - hd>> >>

\* C23: with a sound kernel the standoffs of the base are, component by
\* component, those of the rule: none without is_pcb, ground_z > 0 and
\* pcb_standoffs_enabled; the component's own positions when it names some;
\* else four at the corners inset by 3 mm; in fixed-shape and wrapper runs.
C23_StandoffPlacement ==
    (CutoutsApplied /\ kernel = {})
    => [i \in 1..Len(Feats(base, "standoff")) |->
           << Feats(base, "standoff")[i].x, Feats(base, "standoff")[i].y >>]
       = Flatten([i \in 1..Len(specs) |-> ClaimedStandoffXY(i)])


\* The ground_z of a PCB of the call as its generator reads it.
PcbGroundZ(c) ==
    CASE mode = "wrapper" -> SpecGroundZ(c)
      [] mode = "enclosure" -> c.ground_z
      [] OTHER -> (IF c.hasGz THEN c.ground_z ELSE c.z)

\* The heights of the standoffs of all PCBs when each is as high as its PCB
\* is off the floor.
StandoffHeights ==
    Flatten([i \in 1..Len(Pcbs) |->
                [j \in 1..StandoffCount(Pcbs[i]) |-> PcbGroundZ(Pcbs[i])]])

\* C24: with a sound kernel every standoff of the base is as high as the
\* ground_z of its PCB, stands on the cavity floor (its bottom face at
\* Z = floor thickness) and is drilled on its own axis with a radius of half
\* the PCB screw diameter, in fixed-shape and wrapper runs.
C24_StandoffOnFloor ==
    (CutoutsApplied /\ kernel = {} /\ cfg.pcb_standoffs_enabled)
    => LET S == Feats(base, "standoff")
           D == Feats(base, "standoff_drill")
       IN  /\ Len(S) = Len(D)
           /\ [i \in 1..Len(S) |-> S[i].zhi - S[i].zlo] = StandoffHeights
           /\ [i \in 1..Len(D) |-> D[i].r] = StandoffRadii(1, 2)
           /\ \A i \in 1..Len(S) :
                 /\ S[i].zlo = cfg.floor_thickness
                 /\ D[i].x = S[i].x /\ D[i].y = S[i].y
                 /\ D[i].zlo <= S[i].zlo /\ D[i].zhi >= S[i].zhi


\* The stepped footprint shapes.
SteppedShapes == {"l_shape", "t_shape", "u_shape", "plus"}

\* Edge i of a closed vertex list, the last one closing it.
EdgeOf(pts, i) == << pts[i], pts[(i % Len(pts)) + 1] >>

\* The extent two axis-parallel segments share along X and along Y; they
\* meet exactly when neither is negative.
SharedX(e, f) ==
    Min2(Max2(e[1][1], e[2][1]), Max2(f[1][1], f[2][1]))
        - Max2(Min2(e[1][1], e[2][1]), Min2(f[1][1], f[2][1]))
SharedY(e, f) ==
    Min2(Max2(e[1][2], e[2][2]), Max2(f[1][2], f[2][2]))
        - Max2(Min2(e[1][2], e[2][2]), Min2(f[1][2], f[2][2]))

\* A closed list of axis-parallel edges is a simple polygon: no edge is a
\* point, neighbours meet in their common vertex only, other edges do not
\* meet.
IsSimple(pts) ==
    LET n == Len(pts)
    IN  /\ n >= 4
        /\ \A i \in 1..n :
              LET e == EdgeOf(pts, i)
              IN  e[1] # e[2] /\ (e[1][1] = e[2][1] \/ e[1][2] = e[2][2])
        /\ \A i, j \in 1..n :
              i < j =>
                 LET e == EdgeOf(pts, i)
                     f == EdgeOf(pts, j)
                 IN  IF j = i + 1 \/ (i = 1 /\ j = n)
                     THEN SharedX(e, f) = 0 /\ SharedY(e, f) = 0
                     ELSE SharedX(e, f) < 0 \/ SharedY(e, f) < 0

\* Every vertex lies in the w x d rectangle about the origin.
WithinRect(pts, w, d) ==
    \A i \in 1..Len(pts) :
        /\ -(w \div 2) <= pts[i][1] /\ pts[i][1] <= w \div 2
        /\ -(d \div 2) <= pts[i][2] /\ pts[i][2] <= d \div 2

\* C25: the outline of a stepped footprint (l_shape, t_shape, u_shape, plus)
\* is a simple polygon with all vertices inside the outer width x depth
\* rectangle, whatever the notch, tab or arm parameters; likewise the cavity
\* outline inside the inner rectangle.
C25_SteppedOutlineSimple ==
    (Shelled /\ cfg.footprint.shape \in SteppedShapes)
    => /\ base[1].fp.kind = "polyline"
       /\ IsSimple(base[1].fp.pts)
       /\ WithinRect(base[1].fp.pts, plan.outer.x, plan.outer.y)
       /\ IsSimple(base[2].fp.pts)
       /\ WithinRect(base[2].fp.pts, plan.inner.x, plan.inner.y)


\* The coordinates of an outline that are not those of the w x d rectangle.
InteriorX(pts, w) == {pts[i][1] : i \in 1..Len(pts)} \ {-(w \div 2), w \div 2}
InteriorY(pts, d) == {pts[i][2] : i \in 1..Len(pts)} \ {-(d \div 2), d \div 2}
Span(S) == SetMax(S) - SetMin(S)
The(S) == CHOOSE x \in S : TRUE

\* The size of the notch, tab or arms read off an outline: for l_shape the
\* notch along X and along Y; for t_shape and u_shape the extent along the
\* side and the extent into the outline; for plus the arm widths.
MeasuredSizes(pts, w, d, fp) ==
    LET ix == InteriorX(pts, w)
        iy == InteriorY(pts, d)
        side == IF fp.shape = "t_shape" THEN fp.tab_side ELSE fp.u_open_side
    IN  CASE fp.shape = "l_shape" ->
                << IF fp.notch_corner \in {"top_right", "bottom_right"}
                   THEN w \div 2 - The(ix) ELSE The(ix) + w \div 2,
                   IF fp.notch_corner \in {"top_right", "top_left"}
                   THEN d \div 2 - The(iy) ELSE The(iy) + d \div 2 >>
          [] fp.shape = "plus" -> << Span(ix), Span(iy) >>
          [] side = "top" -> << Span(ix), d \div 2 - The(iy) >>
          [] side = "bottom" -> << Span(ix), The(iy) + d \div 2 >>
          [] side = "right" -> << Span(iy), w \div 2 - The(ix) >>
          [] OTHER -> << Span(iy), The(ix) + w \div 2 >>

\* The parameters of the shape in use are left to the builder.
AutoSized(fp) ==
    CASE fp.shape = "l_shape" -> fp.notch_w = 0 /\ fp.notch_d = 0
      [] fp.shape = "t_shape" -> fp.tab_w = 0 /\ fp.tab_d = 0
      [] fp.shape = "u_shape" -> fp.u_notch_w = 0 /\ fp.u_notch_d = 0
      [] OTHER -> FALSE

\* The footprint shapes the builder knows.
KnownShapes == {"rectangle", "l_shape", "t_shape", "u_shape", "plus", "hexagon", "octagon"}

\* The outlines of the shell, outer and cavity, are those of tenths l (of
\* the width argument) and k (of the depth argument) for an automatic size.
OutlinesSizedAs(l, k) ==
    /\ MeasuredSizes(base[1].fp.pts, plan.outer.x, plan.outer.y, cfg.footprint)
         = << (plan.outer.x * l) \div 10, (plan.outer.y * k) \div 10 >>
    /\ MeasuredSizes(base[2].fp.pts, plan.inner.x, plan.inner.y, cfg.footprint)
         = << (plan.inner.x * l) \div 10, (plan.inner.y * k) \div 10 >>

\* An unrecognized shape name yields the plain rectangle.
UnknownShapeIsRectangle ==
    (Shelled /\ cfg.footprint.shape \notin KnownShapes)
    => /\ base[1].fp = [kind |-> "rect", w |-> plan.outer.x, d |-> plan.outer.y]
       /\ base[2].fp = [kind |-> "rect", w |-> plan.inner.x, d |-> plan.inner.y]

\* C26 as stated: every automatic notch or tab size is 0.4 of the
\* corresponding dimension, for l_shape, t_shape and u_shape alike, and an
\* unrecognized shape yields the rectangle.
C26_AsStated ==
    /\ (Shelled /\ AutoSized(cfg.footprint)) => OutlinesSizedAs(4, 4)
    /\ UnknownShapeIsRectangle

\* C26: an automatic size is 0.4 of the width and 0.4 of the depth for the
\* notch of l_shape, 0.4 of the width and 0.3 of the depth for the tab of
\* t_shape, 0.5 of the width and 0.5 of the depth for the notch of u_shape
\* (tab_w / u_notch_w always from the width argument and tab_d / u_notch_d
\* from the depth argument, whichever side is chosen); the arms of plus are
\* arm_fraction of the width and of the depth, 0.4 by default; an
\* unrecognized shape yields the rectangle.
C26_AutoSizes ==
    /\ (Shelled /\ AutoSized(cfg.footprint)) =>
          CASE cfg.footprint.shape = "l_shape" -> OutlinesSizedAs(4, 4)
            [] cfg.footprint.shape = "t_shape" -> OutlinesSizedAs(4, 3)
            [] OTHER -> OutlinesSizedAs(5, 5)
    /\ (Shelled /\ cfg.footprint.shape = "plus") =>
          /\ MeasuredSizes(base[1].fp.pts, plan.outer.x, plan.outer.y, cfg.footprint)
               = << (plan.outer.x * cfg.footprint.arm_fraction) \div 100,
                    (plan.outer.y * cfg.footprint.arm_fraction) \div 100 >>
          /\ DefaultFootprint.arm_fraction = 40
    /\ UnknownShapeIsRectangle

\* A finished run with an automatic tab on the right side: the tab is 0.4 of
\* the outer width wide (along Y) and 0.3 of the outer depth deep (along X).
C26_Witness ==
    /\ Shelled /\ pc = "done"
    /\ cfg.footprint.shape = "t_shape" /\ cfg.footprint.tab_side = "right"
    /\ AutoSized(cfg.footprint)
    /\ MeasuredSizes(base[1].fp.pts, plan.outer.x, plan.outer.y, cfg.footprint)
         = << 16400, 20400 >>


\* The distance between edge e of the outer outline and edge f of the
\* cavity outline, both parallel to the same axis; 0 if they are not.
EdgeGap(e, f) ==
    IF e[1][1] = e[2][1] /\ f[1][1] = f[2][1]
    THEN (IF e[1][1] >= f[1][1] THEN e[1][1] - f[1][1] ELSE f[1][1] - e[1][1])
    ELSE IF e[1][2] = e[2][2] /\ f[1][2] = f[2][2]
    THEN (IF e[1][2] >= f[1][2] THEN e[1][2] - f[1][2] ELSE f[1][2] - e[1][2])
    ELSE 0

\* cos(pi / n) in thousandths, rounded up: the distance between the edges of
\* two concentric regular n-gons is this share of the difference of their
\* radii.
CosPermille(n) == IF n = 6 THEN 867 ELSE 924

\* The least thickness of material between the outer outline o and the
\* cavity outline c of one shape, edge by edge.
WallBetween(o, c) ==
    CASE o.kind = "rect" -> Min2((o.w - c.w) \div 2, (o.d - c.d) \div 2)
      [] o.kind = "polygon" -> ((o.r - c.r) * CosPermille(o.sides)) \div 1000
      [] OTHER -> SetMin({EdgeGap(EdgeOf(o.pts, i), EdgeOf(c.pts, i)) : i \in 1..Len(o.pts)})

\* C27: for every footprint shape and parameter setting the cavity outline
\* keeps at least the effective wall thickness from the outer outline along
\* every edge.
C27_CavityKeepsWall ==
    Shelled => WallBetween(base[1].fp, base[2].fp) >= plan.wall


\* A size of the engine to two decimals of a millimetre.
ToHundredths(v) ==
    [x |-> ((v.x + 5) \div 10) * 10, y |-> ((v.y + 5) \div 10) * 10,
     z |-> ((v.z + 5) \div 10) * 10]

\* C28: the dimension summary of a successful response is the inner and the
\* outer size the engine built the base shell with, to two decimals; in
\* particular its outer width and depth include twice the wall the engine
\* used.
C28_ResponseMatchesEngine ==
    (mode = "api" /\ pc = "done")
    => /\ resp.status = 200
       /\ resp.dimensions.inner = ToHundredths(plan.inner)
       /\ resp.dimensions.outer = ToHundredths(plan.outer)
       /\ resp.dimensions.outer.x = resp.dimensions.inner.x + 2 * plan.wall
       /\ base[1].h = resp.dimensions.outer.z


\* C29: every corner boss of a fixed-shape base reaches from the floor to
\* floor + max(screw_length - lid_thickness, 3 mm) and ends at or below the
\* top of the base shell, outer height = inner height + floor thickness.
C29_BossBelowRim ==
    (Fixed /\ Shelled)
    => \A i \in 1..Len(base) :
          base[i].feat = "boss"
          => /\ base[i].zlo = cfg.floor_thickness
             /\ base[i].zhi = cfg.floor_thickness
                                + (IF cfg.screw_length - cfg.lid_thickness >= 3000
                                   THEN cfg.screw_length - cfg.lid_thickness ELSE 3000)
             /\ base[1].h = plan.inner.z + cfg.floor_thickness
             /\ base[i].zhi <= base[1].h


\* The 3MF export of this part succeeded in the run in progress.
Exported3mf(part) == \E i \in 1..Len(klog) : klog[i] = K(part, "export", "3mf")

\* C30: the result of a fixed-shape run holds base_3mf only if the 3MF
\* export of the base succeeded in this run, and lid_3mf only if that of the
\* lid did, whatever an earlier run left in the output directory.
C30_3mfKeyMeansExported ==
    Fixed
    => /\ "base_3mf" \in result => Exported3mf("base")
       /\ "lid_3mf" \in result => Exported3mf("lid")

====
